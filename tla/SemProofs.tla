----------------------------- MODULE SemProofs -----------------------------
(***************************************************************************)
(* Semaphores on the kernel, with timeouts and without.                    *)
(*                                                                         *)
(* sem_send resumes the first waiter without a look at its state.  That    *)
(* this does the kernel no harm needs to know where waiters are: Waiters   *)
(* says that a task on the wait list is in the window before task_hang and *)
(* runnable, or behind it and waiting, or has noticed or is about to       *)
(* notice a timeout; and that the timer of a task that has hung itself is  *)
(* not armed before timer_start, so that no earlier timeout makes a waiter *)
(* ready.  With the kernel's own invariant it is inductive for any         *)
(* timeouts, although a timer that is started late may fire on a task that *)
(* runs.                                                                   *)
(*                                                                         *)
(* Without timeouts more is true: every step of Sem is a step of Sched.    *)
(* The last part counts the units.                                         *)
(***************************************************************************)
EXTENDS Sem, SchedProofs, FiniteSetTheorems

\* Where a task on the wait list is.
WaiterPlace(u) ==
  \/ at[u] = "listed" /\ pc[u] = "enlist" /\ sch.status[u] \in Runnable
  \/ at[u] \in {"arm", "asleep", "timed"} /\ sch.status[u] = "wait"
  \/ at[u] \in {"timed", "cleanup"} /\ flag[u] /\ sch.status[u] \in Runnable

Waiters ==
  /\ at \in [Task -> At]
  /\ wait_list \in Seq(Task \ {Idle}) /\ NoDup(wait_list)
  /\ \A u \in ToSet(wait_list) : WaiterPlace(u)
  /\ \A t \in Task : at[t] # "out" => sch.status[t] \in Live
  /\ \A t \in ToSet(tm.list) : at[t] \notin {"arm", "asleep"}

SemInv == Inv /\ Waiters

-----------------------------------------------------------------------------
(***************************************************************************)
(* A step that leaves the wait list alone, and in which tasks that live    *)
(* stay as they are or are woken by a timeout, preserves Waiters.          *)
(***************************************************************************)
LEMMA WaitersStay ==
  ASSUME SemInv, UNCHANGED <<wait_list, at>>, ToSet(tm'.list) \subseteq ToSet(tm.list),
         \A u \in Task : sch.status[u] \in Live =>
           /\ pc[u] = "enlist" => pc'[u] = "enlist"
           /\ flag[u] => flag'[u]
           /\ sch.status[u] \in Runnable => sch'.status[u] \in Runnable
           /\ sch.status[u] = "wait" =>
                \/ sch'.status[u] = "wait"
                \/ at[u] \notin {"arm", "asleep"} /\ flag'[u] /\ sch'.status[u] \in Runnable
  PROVE  Waiters'
<1> USE DEF SemInv
<1>1. \A u \in ToSet(wait_list) : u \in Task
  BY DEF Waiters, ToSet
<1>2. \A u \in ToSet(wait_list) : WaiterPlace(u)'
  BY <1>1 DEF Waiters, WaiterPlace, Live
<1>3. \A t \in Task : at'[t] # "out" => sch'.status[t] \in Live
  BY DEF Waiters, Live
<1> QED BY <1>2, <1>3 DEF Waiters

(***************************************************************************)
(* The same for a step in which nobody is woken.                           *)
(***************************************************************************)
LEMMA WaitersSleep ==
  ASSUME SemInv, UNCHANGED <<wait_list, at, flag>>, ToSet(tm'.list) \subseteq ToSet(tm.list),
         \A u \in Task : sch.status[u] \in Live => (pc[u] = "enlist" => pc'[u] = "enlist"),
         \A u \in Task : /\ sch.status[u] \in Runnable => sch'.status[u] \in Runnable
                         /\ sch.status[u] = "wait" => sch'.status[u] = "wait"
  PROVE  Waiters'
BY WaitersStay

(***************************************************************************)
(* Waiters are tasks that live, in a get.                                  *)
(***************************************************************************)
LEMMA WaiterFacts ==
  ASSUME SemInv, NEW u \in ToSet(wait_list)
  PROVE  /\ u \in Task /\ u # Idle
         /\ sch.status[u] \in Live
         /\ at[u] \in {"listed", "arm", "asleep", "timed", "cleanup"}
<1>1. u \in Task /\ u # Idle
  BY DEF SemInv, Waiters, ToSet
<1> QED BY <1>1 DEF SemInv, Waiters, WaiterPlace, Live

(***************************************************************************)
(* A task that is where sem_get returns is not on the list any more.       *)
(***************************************************************************)
LEMMA Unlisted ==
  ASSUME SemInv, NEW t \in Task, InApp(t), at[t] = "timed" => ~flag[t], at[t] # "cleanup"
  PROVE  t \notin ToSet(wait_list)
<1>1. sch.status[t] \in Runnable /\ pc[t] = "user" /\ "wait" \notin Runnable
  BY AppRunnable DEF Runnable, SemInv
<1> QED BY <1>1 DEF SemInv, Waiters, WaiterPlace

(***************************************************************************)
(* A step of a get moves its task and no other one.                        *)
(***************************************************************************)
LEMMA GetMoves ==
  ASSUME SemInv, NEW t \in Task, NEW x \in At, at' = [at EXCEPT ![t] = x]
  PROVE  at' \in [Task -> At] /\ at'[t] = x /\ \A u \in Task \ {t} : at'[u] = at[u]
BY DEF SemInv, Waiters

-----------------------------------------------------------------------------
(***************************************************************************)
(* The kernel's own steps: only timer_check wakes a waiter, and marks it.  *)
(***************************************************************************)
LEMMA BootStep ==
  ASSUME SemInv, KernelStep, Booting, Start \/ \E t \in Task : TaskCreate(t) \/ TaskReady(t)
  PROVE  Waiters'
<1> USE DEF SemInv
<1>0. /\ UNCHANGED <<wait_list, at>> /\ sch \in SchType /\ sch.status \in [Task -> Status]
      /\ pc \in [Task -> PC] /\ flag \in [Task -> BOOLEAN] /\ "wait" \notin Runnable
  BY SchFields DEF KernelStep, Inv, KInv, TypeOK, Runnable
<1>1. CASE Start
  <2>1. sch.mask # {}
    BY <1>0, <1>1, SchedAssumption, RunnableListed DEF Start, Inv, Runnable
  <2>2. \A v \in Task : sch.status[v] # "running"
    BY <1>1, SchOpsAssumption DEF Start, Booting, Inv, OneRunning
  <2>3. \A v \in Task : /\ sch'.status[v] \in Runnable <=> sch.status[v] \in Runnable
                        /\ sch.status[v] \notin Runnable => sch'.status[v] = sch.status[v]
    BY <1>1, <2>1, <2>2, StartAgrees DEF Start, Inv
  <2>4. tm' = tm /\ pc' = pc /\ flag' = flag
    BY <1>1 DEF Start
  <2> QED BY <1>0, <2>3, <2>4, WaitersSleep
<1>2. ASSUME NEW t \in Task, TaskCreate(t) PROVE Waiters'
  <2>1. /\ tm' = tm /\ pc' = [pc EXCEPT ![t] = "user"] /\ flag' = [flag EXCEPT ![t] = FALSE]
        /\ sch'.status = [sch.status EXCEPT ![t] = "suspend"] /\ sch.status[t] = "none"
    BY <1>0, <1>2 DEF TaskCreate, SchType
  <2>2. sch.status[t] \notin Live
    BY <2>1 DEF Live, Runnable
  <2>3. \A u \in Task \ {t} : pc'[u] = pc[u] /\ flag'[u] = flag[u] /\ sch'.status[u] = sch.status[u]
    BY <1>0, <2>1
  <2>4. \A u \in Task : sch.status[u] \in Live => u # t
    BY <2>2
  <2> QED BY <1>0, <2>1, <2>3, <2>4, WaitersStay
<1>3. ASSUME NEW t \in Task, TaskReady(t) PROVE Waiters'
  <2>1. tm' = tm /\ pc' = pc /\ flag' = flag /\ sch' = add_task_to_ready_list(sch, t)
        /\ sch.status[t] = "suspend"
    BY <1>3 DEF TaskReady
  <2>2. sch'.status = [sch.status EXCEPT ![t] = "ready"]
    BY <1>0, <2>1 DEF add_task_to_ready_list, SchType
  <2>3. \A u \in Task \ {t} : sch'.status[u] = sch.status[u]
    BY <1>0, <2>2
  <2>4. sch'.status[t] \in Runnable
    BY <1>0, <2>2 DEF Runnable
  <2>5. \A u \in Task : /\ sch.status[u] \in Runnable => sch'.status[u] \in Runnable
                        /\ sch.status[u] = "wait" => sch'.status[u] = "wait"
    BY <2>1, <2>3, <2>4
  <2> QED BY <1>0, <2>1, <2>5, WaitersSleep
<1> QED BY <1>1, <1>2, <1>3

LEMMA RunningStep ==
  ASSUME SemInv, KernelStep, Tick \/ \E t \in Task : CallSwitch(t)
  PROVE  Waiters'
<1> USE DEF SemInv
<1>0. UNCHANGED <<wait_list, at>> /\ "wait" \notin Runnable
  BY DEF KernelStep, Waiters, Runnable
<1>1. CASE TickCount
  <2>1. sch' = sch /\ pc' = pc /\ flag' = flag /\ tm'.list = tm.list
    BY <1>1, RunTickKeeps DEF TickCount, Inv, TypeOK
  <2> QED BY <1>0, <2>1, WaitersSleep
<1>2. CASE TickYield
  <2>1. sch.cur \in Task
    BY <1>2, SchFields DEF TickYield, Inv, TypeOK, BootQuiet, Booting
  <2>2. \A v \in Task : /\ sch'.status[v] \in Runnable <=> sch.status[v] \in Runnable
                        /\ sch.status[v] \notin Runnable => sch'.status[v] = sch.status[v]
    BY <1>2, <2>1, YieldAgrees DEF TickYield, Inv
  <2>3. pc' = pc /\ tm' = tm /\ flag' = flag
    BY <1>2 DEF TickYield
  <2> QED BY <1>0, <2>2, <2>3, WaitersSleep
<1>3. CASE TickTimers
  <2>1. CASE HeadIsDue(tm)
    <3> DEFINE t == Head(tm.list)
               r == add_task_to_ready_list(Unlink(sch, t), t)
    <3>1. t \in Task /\ t \in ToSet(tm.list) /\ ~Booting
      <4>1. tm.list \in Seq(Task) /\ tm.list # <<>> /\ ~Booting
        BY <1>3, <2>1, SchedAssumption DEF TickTimers, Inv, TypeOK, TimerType, HeadIsDue, BootQuiet
      <4>2. Len(tm.list) \in Nat \ {0} /\ t = tm.list[1] /\ tm.list[1] \in Task
        BY <4>1
      <4> QED BY <4>1, <4>2 DEF ToSet
    <3>2. /\ sch' = switch_task(r) /\ tm' = timer_stop(tm, t) /\ pc' = pc
          /\ flag' = [flag EXCEPT ![t] = TRUE]
      BY <1>3, <2>1 DEF TickTimers
    <3> HIDE DEF t
    <3>3. at[t] \notin {"arm", "asleep"}
      BY <3>1 DEF Waiters
    <3>4. /\ KInv(r) /\ r.status = [sch.status EXCEPT ![t] = "ready"]
          /\ r.cur = sch.cur /\ r.nest = sch.nest
      BY <3>1, RelinkAgrees DEF Inv
    <3> HIDE DEF r
    <3>5. /\ sch'.status[t] \in Runnable
          /\ \A v \in Task : sch.status[v] \in Runnable => sch'.status[v] \in Runnable
          /\ \A v \in Task \ {t} : sch.status[v] \notin Runnable => sch'.status[v] = sch.status[v]
      BY <3>1, <3>2, <3>4, WakeMovesOne
    <3>6. flag'[t] /\ \A u \in Task \ {t} : flag'[u] = flag[u]
      BY <3>1, <3>2 DEF Inv, TypeOK
    <3>7. ToSet(tm'.list) \subseteq ToSet(tm.list)
      BY <3>1, <3>2, StopUnlinks
    <3>8. ASSUME NEW u \in Task
          PROVE  /\ flag[u] => flag'[u]
                 /\ sch.status[u] = "wait" =>
                      \/ sch'.status[u] = "wait"
                      \/ at[u] \notin {"arm", "asleep"} /\ flag'[u] /\ sch'.status[u] \in Runnable
      BY <1>0, <3>3, <3>5, <3>6
    <3> QED BY <1>0, <3>2, <3>5, <3>7, <3>8, WaitersStay
  <2>2. CASE ~HeadIsDue(tm)
    <3>1. UNCHANGED <<sch, tm, pc, flag>>
      BY <1>3, <2>2 DEF TickTimers
    <3> QED BY <1>0, <3>1, WaitersSleep
  <2> QED BY <2>1, <2>2
<1>4. ASSUME NEW t \in Task, CallSwitch(t) PROVE Waiters'
  <2>1. sch \in SchType /\ ~Booting /\ pc \in [Task -> PC]
    BY <1>4, SchOpsAssumption DEF CallSwitch, InTask, Inv, KInv, TypeOK, Booting
  <2>2. sch.mask # {}
    BY <2>1, SchedAssumption, RunnableListed DEF Inv, IdleRunnable
  <2>3. \A v \in Task : /\ sch'.status[v] \in Runnable <=> sch.status[v] \in Runnable
                        /\ sch.status[v] \notin Runnable => sch'.status[v] = sch.status[v]
    BY <1>4, <2>2, SwitchAgrees DEF Inv, CallSwitch
  <2>4. \A v \in Task : pc[v] = "enlist" => pc'[v] = "enlist"
    BY <1>4, <2>1 DEF CallSwitch, BeforeSwitch
  <2>5. tm' = tm /\ flag' = flag
    BY <1>4 DEF CallSwitch
  <2> QED BY <1>0, <2>3, <2>4, <2>5, WaitersSleep
<1> QED BY <1>1, <1>2, <1>3, <1>4 DEF Tick

LEMMA KernelStepKeeps ==
  ASSUME SemInv, KernelStep
  PROVE  Next /\ SemInv'
<1>1. Next
  BY DEF KernelStep, Next, TaskStep
<1> QED BY <1>1, BootStep, RunningStep, NextKeepsInv DEF SemInv, KernelStep

-----------------------------------------------------------------------------
(***************************************************************************)
(* The steps of a get in user code change nothing of the kernel's.         *)
(***************************************************************************)
LEMMA UserStep ==
  ASSUME SemInv, NEW t \in Task,
         GetTest(t) \/ GetTake(t) \/ GetReturn(t) \/ GetTimedOut(t)
  PROVE  UNCHANGED vars /\ SemInv'
<1> USE DEF SemInv
<1>1. UNCHANGED <<vars, wait_list>> /\ InApp(t)
  BY DEF GetTest, GetTake, GetReturn, GetTimedOut
<1>2. sch.status[t] \in Live
  BY <1>1, AppRunnable DEF Live
<1>3. PICK x \in {"out", "take", "insert", "cleanup"} : at' = [at EXCEPT ![t] = x]
  BY DEF GetTest, GetTake, GetReturn, GetTimedOut
<1>4. at' \in [Task -> At] /\ at'[t] = x /\ \A u \in Task \ {t} : at'[u] = at[u]
  BY <1>3, GetMoves DEF At
<1>5. \A u \in ToSet(wait_list) : WaiterPlace(u)'
  <2>1. CASE GetTimedOut(t)
    <3>1. at[t] = "timed" /\ flag[t] /\ at'[t] = "cleanup" /\ sch.status[t] \in Runnable
      BY <1>1, <2>1, AppRunnable DEF GetTimedOut, Waiters
    <3> QED BY <1>1, <1>4, <3>1, WaiterFacts DEF Waiters, WaiterPlace, vars
  <2>2. CASE GetTest(t) \/ GetTake(t) \/ GetReturn(t)
    <3>1. t \notin ToSet(wait_list)
      BY <1>1, <2>2, Unlisted DEF GetTest, GetTake, GetReturn
    <3> QED BY <1>1, <1>4, <3>1, WaiterFacts DEF Waiters, WaiterPlace, vars
  <2> QED BY <2>1, <2>2
<1>6. \A u \in Task : at'[u] # "out" => sch.status[u] \in Live
  BY <1>2, <1>4 DEF Waiters
<1>7. \A u \in ToSet(tm.list) : at'[u] \notin {"arm", "asleep"}
  BY <1>4, ArmedLive DEF Waiters
<1>8. Waiters'
  BY <1>1, <1>4, <1>5, <1>6, <1>7 DEF Waiters, vars
<1>9. UNCHANGED vars
  BY <1>1
<1>10. Inv'
  BY <1>9, StutterKeepsInv
<1> QED BY <1>8, <1>9, <1>10

(***************************************************************************)
(* The end of a timeout: the mark is taken away, the waiter off the list.  *)
(***************************************************************************)
LEMMA CleanupStep ==
  ASSUME SemInv, NEW t \in Task, GetCleanup(t)
  PROVE  SemInv' /\ ToSet(wait_list') = ToSet(wait_list) \ {t}
<1> USE DEF SemInv
<1>1. /\ InApp(t) /\ at' = [at EXCEPT ![t] = "out"] /\ flag' = [flag EXCEPT ![t] = FALSE]
      /\ wait_list' = ListDel(wait_list, t) /\ UNCHANGED <<sch, tm, slice, pc, tick, victim>>
  BY DEF GetCleanup
<1>2. /\ wait_list' \in Seq(Task \ {Idle}) /\ NoDup(wait_list')
      /\ ToSet(wait_list') = ToSet(wait_list) \ {t}
  BY <1>1, ListDelProperties DEF Waiters
<1>3. at' \in [Task -> At] /\ at'[t] = "out" /\ \A u \in Task \ {t} : at'[u] = at[u]
  BY <1>1, GetMoves DEF At
<1>4. flag' \in [Task -> BOOLEAN] /\ \A u \in Task \ {t} : flag'[u] = flag[u]
  BY <1>1 DEF Inv, TypeOK
<1>5. \A u \in ToSet(wait_list') : WaiterPlace(u)'
  BY <1>1, <1>2, <1>3, <1>4, WaiterFacts DEF Waiters, WaiterPlace
<1>6. \A u \in Task : at'[u] # "out" => sch.status[u] \in Live
  BY <1>3 DEF Waiters
<1>7. \A u \in ToSet(tm.list) : at'[u] \notin {"arm", "asleep"}
  BY <1>3, ArmedLive DEF Waiters
<1>8. Waiters'
  BY <1>1, <1>2, <1>3, <1>5, <1>6, <1>7 DEF Waiters
<1>9. Inv'
  BY <1>1, <1>4 DEF Inv, TypeOK, TimersLive, BootQuiet, IdleRunnable, NestOK, Booting,
                    NoRunWhileBlocked, HighestRuns, ReaperSafe
<1> QED BY <1>2, <1>8, <1>9

(***************************************************************************)
(* The task is now on the list, with whoever was there before.             *)
(***************************************************************************)
LEMMA EnlistAdds ==
  ASSUME SemInv, NEW t \in Task, GetEnlist(t)
  PROVE  /\ wait_list' \in Seq(Task \ {Idle}) /\ NoDup(wait_list')
         /\ ToSet(wait_list') = ToSet(wait_list) \cup {t}
<1> USE DEF SemInv
<1> DEFINE l == ListDel(wait_list, t)
<1>1. /\ at[t] = "insert" /\ InApp(t)
      /\ wait_list' = ListAddBefore(l, WaitPlace(l, t), t)
  BY DEF GetEnlist, TaskEnlist
<1>2. t \notin ToSet(wait_list)
  BY <1>1, WaiterFacts
<1>3. l = wait_list /\ l \in Seq(Task \ {Idle}) /\ NoDup(l)
  BY <1>2, ListDelAbsent DEF Waiters
<1>4. WaitPlace(l, t) \in 1..(Len(l) + 1)
  <2> DEFINE S == {i \in DOMAIN l : sch.prio[t] > sch.prio[l[i]]} \cup {Len(l) + 1}
  <2>1. DOMAIN l = 1..Len(l) /\ Len(l) \in Nat
    BY <1>3
  <2>2. S \in SUBSET Nat /\ S # {} /\ S \subseteq 1..(Len(l) + 1)
    BY <2>1
  <2>3. WaitPlace(l, t) = Min(S)
    BY DEF WaitPlace
  <2> HIDE DEF S
  <2>4. Min(S) \in S
    BY <2>2, MinProperties
  <2> QED BY <2>2, <2>3, <2>4
<1>5. t \in Task \ {Idle}
  BY <1>1 DEF InApp
<1> HIDE DEF l
<1> QED BY <1>1, <1>2, <1>3, <1>4, <1>5, ListAddBeforeProperties

LEMMA EnlistStep ==
  ASSUME SemInv, NEW t \in Task, GetEnlist(t)
  PROVE  TaskEnlist(t) /\ SemInv'
<1> USE DEF SemInv
<1>1. /\ TaskEnlist(t) /\ at[t] = "insert" /\ at' = [at EXCEPT ![t] = "listed"]
      /\ InApp(t) /\ pc' = [pc EXCEPT ![t] = "enlist"] /\ UNCHANGED <<sch, tm, flag>>
  BY DEF GetEnlist, TaskEnlist
<1>2. sch.status[t] \in Runnable /\ pc \in [Task -> PC]
  BY <1>1, AppRunnable DEF Inv, TypeOK
<1>3. t \notin ToSet(wait_list)
  BY <1>1, WaiterFacts
<1>4. /\ wait_list' \in Seq(Task \ {Idle}) /\ NoDup(wait_list')
      /\ ToSet(wait_list') = ToSet(wait_list) \cup {t}
  BY EnlistAdds
<1>5. at' \in [Task -> At] /\ at'[t] = "listed" /\ \A u \in Task \ {t} : at'[u] = at[u]
  BY <1>1, GetMoves DEF At
<1>6. \A u \in ToSet(wait_list') : WaiterPlace(u)'
  <2>1. WaiterPlace(t)'
    BY <1>1, <1>2, <1>5 DEF WaiterPlace
  <2>2. ASSUME NEW u \in ToSet(wait_list) PROVE WaiterPlace(u)'
    <3>1. u \in Task /\ u # t /\ at'[u] = at[u] /\ pc'[u] = pc[u]
      BY <1>1, <1>2, <1>3, <1>5, WaiterFacts
    <3> QED BY <1>1, <3>1 DEF Waiters, WaiterPlace
  <2> QED BY <1>4, <2>1, <2>2
<1>7. \A u \in Task : at'[u] # "out" => sch.status[u] \in Live
  BY <1>2, <1>5 DEF Waiters, Live
<1>8. \A u \in ToSet(tm.list) : at'[u] \notin {"arm", "asleep"}
  BY <1>5, ArmedLive DEF Waiters
<1>9. Waiters'
  BY <1>1, <1>4, <1>5, <1>6, <1>7, <1>8 DEF Waiters
<1> QED BY <1>1, <1>9, TaskEnlistKeepsInv

(***************************************************************************)
(* task_hang stops the timer, so that no timeout of an earlier get or      *)
(* sleep wakes the waiter from here on.                                    *)
(***************************************************************************)
LEMMA HangStep ==
  ASSUME SemInv, NEW t \in Task, GetHang(t)
  PROVE  TaskHang(t) /\ SemInv'
<1> USE DEF SemInv
<1>1. /\ TaskHang(t) /\ wait_list' = wait_list /\ at[t] = "listed"
      /\ AtHang(t) /\ sch' = hang(sch, t) /\ tm' = timer_stop(tm, t)
      /\ pc' = [pc EXCEPT ![t] = "hung"] /\ flag' = flag
  BY DEF GetHang, TaskHang
<1>2. PICK x \in {"asleep", "arm"} : at' = [at EXCEPT ![t] = x]
  BY DEF GetHang
<1>3. at' \in [Task -> At] /\ at'[t] = x /\ \A u \in Task \ {t} : at'[u] = at[u]
  BY <1>2, GetMoves DEF At
<1>4. /\ sch'.status = [sch.status EXCEPT ![t] = "wait"]
      /\ sch.status \in [Task -> Status] /\ pc \in [Task -> PC]
  BY <1>1, AtHangRunnable, HangAgrees, SchFields DEF Inv, TypeOK
<1>5. ASSUME NEW u \in ToSet(wait_list) PROVE WaiterPlace(u)'
  <2>1. CASE u = t
    BY <1>1, <1>3, <1>4, <2>1 DEF WaiterPlace
  <2>2. CASE u # t
    <3>1. at'[u] = at[u] /\ pc'[u] = pc[u] /\ sch'.status[u] = sch.status[u]
      BY <1>1, <1>3, <1>4, <2>2, WaiterFacts
    <3> QED BY <1>1, <3>1 DEF Waiters, WaiterPlace
  <2> QED BY <2>1, <2>2
<1>6. \A u \in Task : at'[u] # "out" => sch'.status[u] \in Live
  BY <1>3, <1>4 DEF Waiters, Live
<1>7. \A u \in ToSet(tm'.list) : at'[u] \notin {"arm", "asleep"}
  BY <1>1, <1>3, StopUnlinks, ArmedLive DEF Waiters
<1>8. Waiters'
  BY <1>1, <1>3, <1>5, <1>6, <1>7 DEF Waiters
<1> QED BY <1>1, <1>8, TaskHangKeepsInv

(***************************************************************************)
(* timer_start may come after the task has been woken: it is then linked   *)
(* for a task that is ready.                                               *)
(***************************************************************************)
LEMMA ArmStep ==
  ASSUME SemInv, NEW t \in Task, NEW n \in Timeouts, GetArm(t, n)
  PROVE  SemInv'
<1> USE DEF SemInv
<1>1. /\ at[t] = "arm" /\ tm' = timer_start(tm, t, n) /\ at' = [at EXCEPT ![t] = "timed"]
      /\ UNCHANGED <<sch, slice, flag, pc, tick, victim, wait_list>>
  BY DEF GetArm
<1>2. tm' \in TimerType /\ NoDup(tm'.list) /\ ToSet(tm'.list) = ToSet(tm.list) \cup {t}
  <2>1. tm \in TimerType /\ NoDup(tm.list) /\ t \in Timer /\ n \in Nat
    BY SchedAssumption, SemAssumption DEF Inv, TypeOK, TimersLive
  <2> QED BY <1>1, <2>1, TimerStartKeeps
<1>3. at' \in [Task -> At] /\ at'[t] = "timed" /\ \A u \in Task \ {t} : at'[u] = at[u]
  BY <1>1, GetMoves DEF At
<1>4. sch.status[t] \in Live
  BY <1>1 DEF Waiters
<1>5. \A u \in ToSet(wait_list) : WaiterPlace(u)'
  BY <1>1, <1>3, WaiterFacts DEF Waiters, WaiterPlace
<1>6. \A u \in Task : at'[u] # "out" => sch.status[u] \in Live
  BY <1>3, <1>4 DEF Waiters
<1>7. \A u \in ToSet(tm'.list) : at'[u] \notin {"arm", "asleep"}
  BY <1>2, <1>3, ArmedLive DEF Waiters
<1>8. Waiters'
  BY <1>1, <1>3, <1>5, <1>6, <1>7 DEF Waiters
<1>9. TimersLive'
  BY <1>1, <1>2, <1>4 DEF Inv, TimersLive, Armed
<1>10. Inv'
  BY <1>1, <1>2, <1>9 DEF Inv, TypeOK, BootQuiet, IdleRunnable, NestOK, Booting,
                          NoRunWhileBlocked, HighestRuns, ReaperSafe
<1> QED BY <1>8, <1>10

-----------------------------------------------------------------------------
(***************************************************************************)
(* Handing a unit to the first waiter takes it off the list and makes it   *)
(* ready; the others keep their places.                                    *)
(***************************************************************************)
LEMMA HandRemoves ==
  ASSUME SemInv, NEW u, HandUnit(u)
  PROVE  /\ u \in ToSet(wait_list)
         /\ wait_list' \in Seq(Task \ {Idle}) /\ NoDup(wait_list')
         /\ ToSet(wait_list') = ToSet(wait_list) \ {u}
<1>1. /\ wait_list # <<>> /\ u = wait_list[1] /\ wait_list' = Tail(wait_list)
      /\ wait_list \in Seq(Task \ {Idle}) /\ NoDup(wait_list)
  BY DEF HandUnit, SemInv, Waiters
<1>2. /\ wait_list' \in Seq(Task \ {Idle}) /\ Len(wait_list') = Len(wait_list) - 1
      /\ \A i \in 1..Len(wait_list') : wait_list'[i] = wait_list[i+1]
      /\ Len(wait_list) \in Nat /\ Len(wait_list) >= 1
      /\ DOMAIN wait_list = 1..Len(wait_list) /\ DOMAIN wait_list' = 1..Len(wait_list')
  BY <1>1
<1>3. u \in ToSet(wait_list)
  BY <1>1, <1>2 DEF ToSet
<1>4. NoDup(wait_list')
  BY <1>1, <1>2 DEF NoDup
<1>5. \A v \in ToSet(wait_list') : v \in ToSet(wait_list) /\ v # u
  BY <1>1, <1>2 DEF ToSet, NoDup
<1>6. ASSUME NEW v \in ToSet(wait_list), v # u PROVE v \in ToSet(wait_list')
  <2>1. PICK i \in 1..Len(wait_list) : v = wait_list[i]
    BY <1>2 DEF ToSet
  <2>2. i # 1
    BY <1>1, <1>6, <2>1
  <2>3. i - 1 \in 1..Len(wait_list') /\ (i - 1) + 1 = i
    BY <1>2, <2>2
  <2>4. wait_list'[i - 1] = v
    BY <1>2, <2>1, <2>3
  <2> QED BY <1>2, <2>3, <2>4 DEF ToSet
<1> QED BY <1>2, <1>3, <1>4, <1>5, <1>6

LEMMA HandStep ==
  ASSUME SemInv, NEW u \in Task, HandUnit(u), UNCHANGED <<at, flag>>,
         tm' = timer_stop(tm, u),
         \A v \in Task \ {u} : pc[v] = "enlist" => pc'[v] = "enlist",
         sch'.status[u] \in Runnable,
         \A v \in Task \ {u} :
           /\ sch.status[v] \in Runnable => sch'.status[v] \in Runnable
           /\ sch.status[v] = "wait" => sch'.status[v] = "wait"
  PROVE  Waiters'
<1> USE DEF SemInv
<1>1. /\ wait_list' \in Seq(Task \ {Idle}) /\ NoDup(wait_list')
      /\ ToSet(wait_list') = ToSet(wait_list) \ {u}
  BY HandRemoves
<1>2. \A v \in ToSet(wait_list') : WaiterPlace(v)'
  BY <1>1, WaiterFacts DEF Waiters, WaiterPlace
<1>3. \A v \in Task : at'[v] # "out" => sch'.status[v] \in Live
  BY DEF Waiters, Live
<1>4. \A v \in ToSet(tm'.list) : at'[v] \notin {"arm", "asleep"}
  BY StopUnlinks DEF Waiters
<1> QED BY <1>1, <1>2, <1>3, <1>4 DEF Waiters

(***************************************************************************)
(* sem_send by a task and by a handler.                                    *)
(***************************************************************************)
LEMMA TaskSendStep ==
  ASSUME SemInv, NEW t \in Task, TaskSend(t)
  PROVE  SemInv'
<1> USE DEF SemInv
<1>1. /\ InApp(t) /\ UNCHANGED at /\ sch \in SchType /\ pc \in [Task -> PC]
      /\ sch.status \in [Task -> Status]
  BY SchFields DEF TaskSend, Inv, TypeOK
<1>2. ASSUME NEW u \in Consumer, HandUnit(u), sch' = resume(sch, u), tm' = timer_stop(tm, u),
             pc' = [Woken(u) EXCEPT ![t] = "switch"], UNCHANGED <<slice, flag, tick, victim>>
      PROVE  SemInv'
  <2>1. u \in Task /\ sch.status[u] # "close"
    BY <1>2, HandRemoves, WaiterFacts DEF Live, Runnable
  <2>2. Inv'
    BY <1>1, <1>2, <2>1, ResumeKeepsInv
  <2>3. sch'.status = [sch.status EXCEPT ![u] = "ready"]
    BY <1>1, <1>2, <2>1, ResumeAgrees DEF Inv
  <2>4. sch'.status[u] \in Runnable /\ \A v \in Task \ {u} : sch'.status[v] = sch.status[v]
    BY <1>1, <2>1, <2>3 DEF Runnable
  <2>5. pc[t] = "user"
    BY <1>1 DEF InApp
  <2>6. \A v \in Task \ {u} : pc[v] = "enlist" => pc'[v] = "enlist"
    BY <1>1, <1>2, <2>5 DEF Woken
  <2>7. Waiters'
    BY <1>1, <1>2, <2>1, <2>4, <2>6, HandStep
  <2> QED BY <2>2, <2>7
<1>3. CASE TaskSwitch(t) /\ AddUnit /\ wait_list = <<>>
  <2>1. wait_list' = <<>> /\ UNCHANGED <<sch, tm, flag>>
    BY <1>3 DEF AddUnit, TaskSwitch
  <2>2. ToSet(<<>>) = {}
    BY DEF ToSet
  <2>3. Waiters'
    BY <1>1, <1>3, <2>1, <2>2 DEF Waiters
  <2> QED BY <1>3, <2>3, TaskSwitchKeepsInv
<1> QED BY <1>2, <1>3 DEF TaskSend

LEMMA IsrSendStep ==
  ASSUME SemInv, IsrSend
  PROVE  SemInv'
<1> USE DEF SemInv
<1>1. ~Booting /\ UNCHANGED at /\ sch \in SchType /\ pc \in [Task -> PC]
  BY DEF IsrSend, Inv, TypeOK
<1>2. ASSUME NEW u \in Consumer, HandUnit(u), sch' = switch_task(resume(sch, u)),
             tm' = timer_stop(tm, u), pc' = Woken(u), UNCHANGED <<slice, flag, tick, victim>>
      PROVE  SemInv'
  <2> DEFINE r == resume(sch, u)
  <2>1. u \in Task /\ sch.status[u] # "close"
    BY <1>2, HandRemoves, WaiterFacts DEF Live, Runnable
  <2>2. /\ KInv(r) /\ r.status = [sch.status EXCEPT ![u] = "ready"]
        /\ r.cur = sch.cur /\ r.nest = sch.nest /\ r.close = ListDel(sch.close, u)
    BY <2>1, ResumeAgrees DEF Inv
  <2>3. /\ pc' \in [Task -> PC]
        /\ \A v \in Task : pc'[v] = pc[v] \/ {pc[v], pc'[v]} \subseteq Window
    BY <1>2, <2>1, WokenKeeps
  <2>4. sch' = switch_task(r)
    BY <1>2
  <2> HIDE DEF r
  <2>5. flag' \in [Task -> BOOLEAN] /\ tick' \in {"idle", "yield", "timers"}
    BY <1>2 DEF Inv, TypeOK
  <2>6. Inv'
    BY <1>1, <1>2, <2>1, <2>2, <2>3, <2>4, <2>5, WakeKeepsInv
  <2>7. /\ sch'.status[u] \in Runnable
        /\ \A v \in Task : sch.status[v] \in Runnable => sch'.status[v] \in Runnable
        /\ \A v \in Task \ {u} : sch.status[v] \notin Runnable => sch'.status[v] = sch.status[v]
    BY <1>1, <2>1, <2>2, <2>4, WakeMovesOne
  <2>8. \A v \in Task \ {u} : pc[v] = "enlist" => pc'[v] = "enlist"
    BY <1>1, <1>2 DEF Woken
  <2>9. "wait" \notin Runnable
    BY DEF Runnable
  <2>10. Waiters'
    BY <1>1, <1>2, <2>1, <2>7, <2>8, <2>9, HandStep
  <2> QED BY <2>6, <2>10
<1>3. CASE IsrSwitch /\ AddUnit /\ wait_list = <<>>
  <2>1. wait_list' = <<>> /\ UNCHANGED <<tm, flag>>
    BY <1>3 DEF AddUnit, IsrSwitch
  <2>2. ToSet(<<>>) = {} /\ NoDup(<<>>) /\ <<>> \in Seq(Task \ {Idle})
    BY DEF ToSet, NoDup
  <2>3. sch.mask # {}
    BY <1>1, SchedAssumption, RunnableListed DEF Inv, IdleRunnable
  <2>4. \A v \in Task : /\ sch'.status[v] \in Runnable <=> sch.status[v] \in Runnable
                        /\ sch.status[v] \notin Runnable => sch'.status[v] = sch.status[v]
    BY <1>3, <2>3, SwitchAgrees DEF Inv, IsrSwitch
  <2>5. \A v \in Task : at'[v] # "out" => sch'.status[v] \in Live
    BY <1>1, <2>4 DEF Waiters, Live
  <2>6. Waiters'
    BY <1>1, <1>3, <2>1, <2>2, <2>5 DEF Waiters
  <2> QED BY <1>3, <2>6, IsrSwitchKeepsInv
<1> QED BY <1>2, <1>3 DEF IsrSend

-----------------------------------------------------------------------------
(***************************************************************************)
(* SemInv is inductive, whatever the timeouts are.                         *)
(***************************************************************************)
LEMMA SemStart ==
  ASSUME SemInit
  PROVE  SemInv
<1>1. Inv
  BY InitInv DEF SemInit
<1>2. wait_list = <<>> /\ at = [t \in Task |-> "out"] /\ tm.list = <<>>
  BY DEF SemInit, Init, TimerInit
<1>3. ToSet(<<>>) = {} /\ NoDup(<<>>) /\ <<>> \in Seq(Task \ {Idle})
  BY DEF ToSet, NoDup
<1> QED BY <1>1, <1>2, <1>3 DEF SemInv, Waiters, At

LEMMA SemStep ==
  ASSUME SemInv, [SemNext]_semVars
  PROVE  SemInv'
<1>1. CASE KernelStep \/ IsrSend
  BY <1>1, KernelStepKeeps, IsrSendStep
<1>2. ASSUME NEW t \in Task, TaskSend(t) PROVE SemInv'
  BY <1>2, TaskSendStep
<1>3. ASSUME NEW t \in Task, GetStep(t) PROVE SemInv'
  BY <1>3, UserStep, CleanupStep, EnlistStep, HangStep, ArmStep DEF GetStep
<1>4. CASE UNCHANGED semVars
  <2>1. UNCHANGED vars /\ UNCHANGED <<wait_list, at>>
    BY <1>4 DEF semVars
  <2>2. Waiters'
    BY <2>1 DEF SemInv, vars, Waiters, WaiterPlace
  <2> QED BY <2>1, <2>2, StutterKeepsInv DEF SemInv
<1> QED BY <1>1, <1>2, <1>3, <1>4 DEF SemNext

LEMMA SemSafe == SemSpec => []SemInv
<1>1. SemInit => SemInv
  BY SemStart
<1>2. SemInv /\ [SemNext]_semVars => SemInv'
  BY SemStep
<1> QED BY <1>1, <1>2, PTL DEF SemSpec

(***************************************************************************)
(* Whoever is on the wait list is in a get and is listed once, whatever    *)
(* strikes in the windows of sem_get and sem_get_timeout and however late  *)
(* a timer is started (kernel/sem.c:43, 101).                              *)
(***************************************************************************)
THEOREM SemWaitersInside == SemSpec => []WaitersInside
<1>1. SemInv => WaitersInside
  BY WaiterFacts DEF SemInv, Waiters, WaitersInside, InGet
<1> QED BY <1>1, SemSafe, PTL

(***************************************************************************)
(* The ready lists stay exact although sem_send resumes a waiter that runs *)
(* already and a timer that was started late fires on a task that does not *)
(* wait (kernel/sem.c:101, kernel/task.c:45).                              *)
(***************************************************************************)
THEOREM SemKeepsQueues == SemSpec => [](QueuesExact /\ BitmapIsExact)
<1>1. SemInv => QueuesExact /\ BitmapIsExact
  BY DEF SemInv, Inv, QueuesExact, BitmapIsExact, KInv
<1> QED BY <1>1, SemSafe, PTL

(***************************************************************************)
(* Nor do such wake-ups let a less urgent task run, or one that is blocked.*)
(***************************************************************************)
THEOREM SemKeepsPreemption == SemSpec => [](HighestRuns /\ NoRunWhileBlocked)
<1>1. SemInv => HighestRuns /\ NoRunWhileBlocked
  BY DEF SemInv, Inv
<1> QED BY <1>1, SemSafe, PTL

-----------------------------------------------------------------------------
(***************************************************************************)
(* Without timeouts nobody is in the part of sem_get_timeout that has one, *)
(* and no timer is armed.                                                  *)
(***************************************************************************)
Timeless ==
  /\ \A t \in Task : at[t] \notin {"arm", "timed", "cleanup"}
  /\ tm.list = <<>>

\* Stopping a timer that is not armed changes no list.
LEMMA StopNothing ==
  ASSUME tm.list = <<>>, NEW t
  PROVE  timer_stop(tm, t).list = <<>>
<1>1. <<>> \in Seq(Task) /\ t \notin ToSet(<<>>)
  BY DEF ToSet
<1>2. ListDel(<<>>, t) = <<>>
  BY <1>1, ListDelAbsent
<1> QED BY <1>2 DEF timer_stop

\* The first waiter can be resumed: it sleeps, or is in the window.
LEMMA HeadResumable ==
  ASSUME SemInv, Timeless, NEW u, HandUnit(u)
  PROVE  u \in Task /\ Resumable(u)
<1>1. u \in ToSet(wait_list)
  BY HandRemoves
<1>2. u \in Task /\ u # Idle
  BY <1>1, WaiterFacts
<1>3. \/ pc[u] = "enlist" /\ sch.status[u] \in Runnable
      \/ sch.status[u] = "wait"
  BY <1>1, <1>2 DEF SemInv, Waiters, WaiterPlace, Timeless
<1> QED BY <1>2, <1>3 DEF Resumable

LEMMA TimelessKernel ==
  ASSUME SemInv, Timeless, KernelStep
  PROVE  Next /\ Timeless'
<1>1. Next /\ UNCHANGED at
  BY KernelStepKeeps DEF KernelStep
<1>2. tm'.list = <<>>
  <2>1. CASE TickCount
    BY <2>1, RunTickKeeps DEF TickCount, SemInv, Inv, TypeOK, Timeless
  <2>2. CASE TickTimers
    BY <2>2 DEF TickTimers, HeadIsDue, Timeless
  <2>3. CASE Start \/ TickYield \/ \E t \in Task : TaskCreate(t) \/ TaskReady(t) \/ CallSwitch(t)
    BY <2>3 DEF Start, TickYield, TaskCreate, TaskReady, CallSwitch, Timeless
  <2> QED BY <2>1, <2>2, <2>3 DEF KernelStep, Tick
<1> QED BY <1>1, <1>2 DEF Timeless

LEMMA TimelessSend ==
  ASSUME SemInv, Timeless, IsrSend \/ \E t \in Task : TaskSend(t)
  PROVE  Next /\ Timeless'
<1>1. UNCHANGED at
  BY DEF IsrSend, TaskSend
<1>2. ASSUME NEW u \in Consumer, HandUnit(u), tm' = timer_stop(tm, u)
      PROVE  u \in Task /\ Resumable(u) /\ tm'.list = <<>>
  BY <1>2, HeadResumable, StopNothing DEF Timeless
<1>3. CASE IsrSend
  <2>1. CASE wait_list = <<>> /\ AddUnit /\ IsrSwitch
    BY <1>1, <2>1 DEF Next, IsrSwitch, Timeless
  <2>2. ASSUME NEW u \in Consumer, HandUnit(u), sch' = switch_task(resume(sch, u)),
               tm' = timer_stop(tm, u), pc' = Woken(u), UNCHANGED <<slice, flag, tick, victim>>
        PROVE  Next /\ Timeless'
    <3>1. IsrWake(u) /\ u \in Task
      BY <1>2, <1>3, <2>2 DEF IsrSend, IsrWake
    <3> QED BY <1>1, <1>2, <2>2, <3>1 DEF Next, Timeless
  <2> QED BY <1>3, <2>1, <2>2 DEF IsrSend
<1>4. ASSUME NEW t \in Task, TaskSend(t) PROVE Next /\ Timeless'
  <2>1. CASE wait_list = <<>> /\ AddUnit /\ TaskSwitch(t)
    <3>1. TaskStep(t) /\ tm' = tm
      BY <2>1 DEF TaskStep, TaskSwitch
    <3> QED BY <1>1, <3>1 DEF Next, Timeless
  <2>2. ASSUME NEW u \in Consumer, HandUnit(u), sch' = resume(sch, u),
               tm' = timer_stop(tm, u), pc' = [Woken(u) EXCEPT ![t] = "switch"],
               UNCHANGED <<slice, flag, tick, victim>>
        PROVE  Next /\ Timeless'
    <3>1. TaskWake(t, u) /\ u \in Task
      BY <1>2, <1>4, <2>2 DEF TaskSend, TaskWake
    <3>2. TaskStep(t)
      BY <3>1 DEF TaskStep
    <3> QED BY <1>1, <1>2, <2>2, <3>2 DEF Next, Timeless
  <2> QED BY <1>4, <2>1, <2>2 DEF TaskSend
<1> QED BY <1>3, <1>4

LEMMA TimelessGet ==
  ASSUME Timeouts = {}, SemInv, Timeless, NEW t \in Task, GetStep(t)
  PROVE  (Next \/ UNCHANGED vars) /\ Timeless'
<1>1. ~GetTimedOut(t) /\ ~GetCleanup(t) /\ ~(\E n \in Timeouts : GetArm(t, n))
  BY DEF Timeless, GetTimedOut, GetCleanup
<1>2. CASE GetTest(t) \/ GetTake(t) \/ GetReturn(t)
  <2>1. UNCHANGED vars
    BY <1>2 DEF GetTest, GetTake, GetReturn
  <2>2. PICK x \in {"out", "take", "insert"} : at' = [at EXCEPT ![t] = x]
    BY <1>2 DEF GetTest, GetTake, GetReturn
  <2>3. at'[t] = x /\ \A u \in Task \ {t} : at'[u] = at[u]
    BY <2>2, GetMoves DEF At
  <2> QED BY <2>1, <2>3 DEF vars, Timeless
<1>3. CASE GetEnlist(t)
  <2>1. TaskStep(t) /\ at' = [at EXCEPT ![t] = "listed"] /\ tm' = tm
    BY <1>3 DEF GetEnlist, TaskStep, TaskEnlist
  <2>2. at'[t] = "listed" /\ \A u \in Task \ {t} : at'[u] = at[u]
    BY <2>1, GetMoves DEF At
  <2> QED BY <2>1, <2>2 DEF Next, Timeless
<1>4. CASE GetHang(t)
  <2>1. TaskStep(t) /\ at' = [at EXCEPT ![t] = "asleep"] /\ tm' = timer_stop(tm, t)
    BY <1>4 DEF GetHang, TaskStep, TaskHang
  <2>2. at'[t] = "asleep" /\ \A u \in Task \ {t} : at'[u] = at[u]
    BY <2>1, GetMoves DEF At
  <2> QED BY <2>1, <2>2, StopNothing DEF Next, Timeless
<1> QED BY <1>1, <1>2, <1>3, <1>4 DEF GetStep

LEMMA TimelessStep ==
  ASSUME Timeouts = {}, SemInv, Timeless, [SemNext]_semVars
  PROVE  [Next]_vars /\ Timeless'
<1>1. CASE UNCHANGED semVars
  BY <1>1 DEF semVars, vars, Timeless
<1>2. CASE SemNext
  BY <1>2, TimelessKernel, TimelessSend, TimelessGet DEF SemNext
<1> QED BY <1>1, <1>2

LEMMA TimelessStart ==
  ASSUME SemInit
  PROVE  Init /\ Timeless
BY DEF SemInit, Init, TimerInit, Timeless

LEMMA TimelessSafe ==
  ASSUME Timeouts = {}
  PROVE  SemSpec => [](SemInv /\ Timeless)
<1>1. SemInit => Timeless
  BY TimelessStart
<1>2. SemInv /\ Timeless /\ [SemNext]_semVars => Timeless'
  BY TimelessStep
<1> QED BY <1>1, <1>2, SemSafe, PTL DEF SemSpec

(***************************************************************************)
(* Every behaviour of a semaphore without timeouts is one of the kernel:   *)
(* getting and sending units are task_hang, task_resume and switch_task    *)
(* with interrupts off, and what Sched promises holds for them.  (With     *)
(* timeouts this is false: timer_start of sem_get_timeout is no step of    *)
(* Sched, kernel/sem.c:101.)                                               *)
(***************************************************************************)
THEOREM SemRefinesSched ==
  ASSUME Timeouts = {}
  PROVE  SemSpec => Spec
<1>1. SemInit => Init
  BY TimelessStart
<1>2. SemInv /\ Timeless /\ [SemNext]_semVars => [Next]_vars
  BY TimelessStep
<1> QED BY <1>1, <1>2, TimelessSafe, PTL DEF SemSpec, Spec

-----------------------------------------------------------------------------
(***************************************************************************)
(* Where the units are: in the count, on their way to a consumer that is   *)
(* in a get and off the wait list, or taken.                               *)
(***************************************************************************)
\* A remainder is determined.
LEMMA ModUnique ==
  ASSUME NEW m \in Nat \ {0}, NEW x \in Nat, NEW q \in Nat, NEW r \in 0..(m-1), x = q * m + r
  PROVE  x % m = r
BY SMTT(30)

\* Division with a remainder, by descent along the dividend.
LEMMA Division ==
  ASSUME NEW m \in Nat \ {0}, NEW x \in Nat
  PROVE  \E q \in Nat, r \in 0..(m-1) : x = q * m + r
<1> DEFINE Divides(n) == \E q \in Nat, r \in 0..(m-1) : n = q * m + r
           S == {n \in Nat : ~Divides(n)}
<1>1. ASSUME S # {} PROVE FALSE
  <2>1. S \in SUBSET Nat
    OBVIOUS
  <2> HIDE DEF S
  <2>2. PICK n \in S : \A k \in S : <<k, n>> \notin OpToRel(<, Nat)
    BY <1>1, <2>1, NatLessThanWellFounded, WFMin
  <2>3. ASSUME NEW k \in S, k < n PROVE FALSE
    <3>1. <<k, n>> \in Nat \X Nat /\ <<k, n>>[1] < <<k, n>>[2]
      BY <2>1, <2>3
    <3>2. <<k, n>> \in OpToRel(<, Nat)
      BY <3>1, Zenon DEF OpToRel
    <3> QED BY <3>2, <2>2
  <2>4. n \in Nat /\ ~Divides(n)
    BY <2>2 DEF S
  <2>5. ~(n < m)
    <3>1. n < m => n = 0 * m + n /\ n \in 0..(m-1)
      BY <2>4
    <3> QED BY <2>4, <3>1
  <2>6. n - m \in Nat /\ n - m < n
    BY <2>4, <2>5
  <2>7. Divides(n - m)
    <3>1. n - m \notin S
      BY <2>3, <2>6
    <3> QED BY <2>6, <3>1 DEF S
  <2>8. PICK q \in Nat, r \in 0..(m-1) : n - m = q * m + r
    BY <2>7
  <2>9. n = (q + 1) * m + r /\ q + 1 \in Nat
    BY <2>4, <2>8
  <2> QED BY <2>4, <2>9
<1>2. ~(x \in S)
  BY <1>1
<1> QED BY <1>2

\* Once round changes no remainder.
LEMMA ModRound ==
  ASSUME NEW m \in Nat \ {0}, NEW x \in Nat
  PROVE  (x + m) % m = x % m /\ (x < m => x % m = x)
<1>1. PICK q \in Nat, r \in 0..(m-1) : x = q * m + r
  BY Division
<1>2. x + m = (q + 1) * m + r /\ q + 1 \in Nat /\ x + m \in Nat
  BY <1>1
<1>3. x % m = r
  BY <1>1, ModUnique
<1>4. (x + m) % m = r
  BY <1>2, ModUnique
<1>5. x < m => x = 0 * m + x /\ x \in 0..(m-1)
  OBVIOUS
<1>6. x < m => x % m = x
  BY <1>5, ModUnique
<1> QED BY <1>3, <1>4, <1>6

\* Equal remainders have equal successors.
LEMMA ModNext ==
  ASSUME NEW m \in Nat \ {0}, NEW x \in Nat, NEW y \in Nat, x % m = y % m
  PROVE  (x + 1) % m = (y + 1) % m
<1>1. PICK q \in Nat, r \in 0..(m-1) : x = q * m + r
  BY Division
<1>2. PICK v \in Nat, w \in 0..(m-1) : y = v * m + w
  BY Division
<1>3. r = w
  BY <1>1, <1>2, ModUnique
<1>4. CASE r + 1 < m
  <2>1. /\ x + 1 = q * m + (r + 1) /\ y + 1 = v * m + (r + 1)
        /\ r + 1 \in 0..(m-1) /\ x + 1 \in Nat /\ y + 1 \in Nat
    BY <1>1, <1>2, <1>3, <1>4
  <2>2. (x + 1) % m = r + 1
    BY <2>1, ModUnique
  <2>3. (y + 1) % m = r + 1
    BY <2>1, ModUnique
  <2> QED BY <2>2, <2>3
<1>5. CASE r + 1 = m
  <2>1. /\ x + 1 = (q + 1) * m + 0 /\ y + 1 = (v + 1) * m + 0
        /\ 0 \in 0..(m-1) /\ x + 1 \in Nat /\ y + 1 \in Nat /\ q + 1 \in Nat /\ v + 1 \in Nat
    BY <1>1, <1>2, <1>3, <1>5
  <2>2. (x + 1) % m = 0
    BY <2>1, ModUnique
  <2>3. (y + 1) % m = 0
    BY <2>1, ModUnique
  <2> QED BY <2>2, <2>3
<1> QED BY <1>4, <1>5

(***************************************************************************)
(* Arithmetic of the wrapping count: c is the count, n what is taken or on *)
(* its way, s what was sent.                                               *)
(***************************************************************************)
LEMMA CountUp ==
  ASSUME NEW m \in Nat \ {0, 1}, NEW c \in 0..(m-1), NEW n \in Nat, NEW s \in Nat,
         (c + n) % m = s % m
  PROVE  /\ (c + 1) % m \in 0..(m-1)
         /\ (((c + 1) % m) + n) % m = (s + 1) % m
<1>1. ((c + n) + 1) % m = (s + 1) % m
  <2>1. c + n \in Nat
    OBVIOUS
  <2> QED BY <2>1, ModNext
<1>2. CASE c + 1 < m
  <2>1. (c + 1) % m = c + 1
    <3>1. c + 1 \in Nat /\ c + 1 < m /\ m \in Nat \ {0}
      BY <1>2
    <3> QED BY <3>1, ModRound
  <2>2. ((c + 1) % m) + n = (c + n) + 1
    BY <2>1
  <2> QED BY <1>1, <1>2, <2>1, <2>2
<1>3. CASE c + 1 = m
  <2>1. (c + 1) % m = 0
    <3>1. m = 1 * m + 0 /\ 0 \in 0..(m-1)
      OBVIOUS
    <3>2. m % m = 0
      BY <3>1, ModUnique
    <3> QED BY <1>3, <3>2
  <2>2. n % m = (n + m) % m
    BY ModRound
  <2>3. n + m = (c + n) + 1 /\ ((c + 1) % m) + n = n
    BY <1>3, <2>1
  <2>4. (((c + 1) % m) + n) % m = (s + 1) % m
    BY <1>1, <2>2, <2>3
  <2> QED BY <2>1, <2>4
<1> QED BY <1>2, <1>3

LEMMA CountDown ==
  ASSUME NEW m \in Nat \ {0, 1}, NEW c \in 0..(m-1), NEW n \in Nat
  PROVE  /\ (c + m - 1) % m \in 0..(m-1)
         /\ (((c + m - 1) % m) + (n + 1)) % m = (c + n) % m
<1>1. CASE c = 0
  <2>1. (m - 1) % m = m - 1
    <3>1. m - 1 \in Nat /\ m - 1 < m /\ m \in Nat \ {0}
      OBVIOUS
    <3> QED BY <3>1, ModRound
  <2>2. c + m - 1 = m - 1 /\ (m - 1) + (n + 1) = n + m /\ c + n = n
    BY <1>1
  <2>3. (n + m) % m = n % m
    BY ModRound
  <2>4. (c + m - 1) % m = m - 1
    BY <2>1, <2>2
  <2>5. (((c + m - 1) % m) + (n + 1)) % m = (c + n) % m
    BY <2>2, <2>3, <2>4
  <2> QED BY <2>4, <2>5
<1>2. CASE c # 0
  <2>1. c - 1 \in Nat /\ c - 1 < m /\ c + m - 1 = (c - 1) + m
    BY <1>2
  <2>2. ((c - 1) + m) % m = (c - 1) % m /\ (c - 1) % m = c - 1
    BY <2>1, ModRound
  <2>3. (c + m - 1) % m = c - 1 /\ (c - 1) + (n + 1) = c + n
    BY <2>1, <2>2
  <2>4. (((c + m - 1) % m) + (n + 1)) % m = (c + n) % m
    BY <2>3
  <2> QED BY <2>1, <2>3, <2>4
<1> QED BY <1>1, <1>2

(***************************************************************************)
(* What a step does to the units: nothing; a unit sent to the count, or to *)
(* a waiter; a unit taken from the count, or carried out of a get by a     *)
(* waiter; and the end of a timeout, with or without a unit.               *)
(***************************************************************************)
UnitTypes ==
  /\ count \in 0..(CountMod - 1) /\ sent \in Nat /\ taken \in Nat
  /\ \A t \in Task : at[t] # "out" => t \in Consumer

Units == Cardinality(Granted)

Kept == UNCHANGED <<count, sent, taken>> /\ Units' = Units
Added == AddUnit /\ sent' = sent + 1 /\ taken' = taken /\ Units' = Units
Handed == UNCHANGED <<count, taken>> /\ sent' = sent + 1 /\ Units' = Units + 1
Took(t) == GetTake(t) /\ Units' = Units
Carried == UNCHANGED <<count, sent>> /\ taken' = taken + 1 /\ Units' = Units - 1
Dropped(t) == at[t] = "cleanup" /\ UNCHANGED <<count, sent, taken>> /\ Units' <= Units

\* Who may rely on the count: a task that has seen a unit there.
Relies == \A t \in Task : at'[t] = "take" => at[t] = "take" \/ (count > 0 /\ Kept)

LEMMA GrantedFinite ==
  ASSUME IsFiniteSet(Consumer)
  PROVE  /\ IsFiniteSet(Granted) /\ Units \in Nat
         /\ IsFiniteSet(Granted') /\ Units' \in Nat
<1>1. Granted \in SUBSET Consumer /\ Granted' \in SUBSET Consumer
  BY DEF Granted
<1> QED BY <1>1, FS_Subset, FS_CardinalityType DEF Units

\* Only the places of consumers and the wait list matter.
LEMMA GrantedStays ==
  ASSUME \A u \in Consumer : InGet(u)' <=> InGet(u),
         \A u \in Consumer : InGet(u) => (u \in ToSet(wait_list') <=> u \in ToSet(wait_list))
  PROVE  Granted' = Granted /\ Units' = Units
<1>1. Granted' = Granted
  BY DEF Granted
<1> QED BY <1>1 DEF Units

LEMMA FlowSend ==
  ASSUME SemInv, UnitTypes, IsFiniteSet(Consumer),
         UNCHANGED <<at, taken>>, sent' = sent + 1,
         \/ wait_list = <<>> /\ AddUnit
         \/ \E u \in Consumer : HandUnit(u)
  PROVE  Added \/ Handed
<1>1. CASE AddUnit
  <2>1. Units' = Units
    BY <1>1, GrantedStays DEF AddUnit, InGet
  <2> QED BY <1>1, <2>1 DEF Added
<1>2. ASSUME NEW u \in Consumer, HandUnit(u) PROVE Handed
  <2>1. u \in ToSet(wait_list) /\ ToSet(wait_list') = ToSet(wait_list) \ {u}
    BY <1>2, HandRemoves
  <2>2. InGet(u)
    BY <2>1, WaiterFacts DEF InGet
  <2>3. Granted' = Granted \cup {u} /\ u \notin Granted
    BY <2>1, <2>2 DEF Granted, InGet
  <2>4. Units' = Units + 1
    BY <2>3, GrantedFinite, FS_AddElement DEF Units
  <2> QED BY <1>2, <2>4 DEF Handed, HandUnit
<1> QED BY <1>1, <1>2

\* A step of a get that is no end of it: the task has no unit on its way
\* before it is taken off the list.
LEMMA FlowGet ==
  ASSUME SemInv, UnitTypes, NEW t \in Task,
         \/ GetTest(t) \/ GetEnlist(t) \/ GetHang(t) \/ GetTimedOut(t)
         \/ \E n \in Timeouts : GetArm(t, n)
  PROVE  Kept /\ t \in Consumer
<1>1. UNCHANGED <<count, sent, taken>> /\ t \in Consumer
  BY DEF UnitTypes, GetTest, GetEnlist, GetHang, GetArm, GetTimedOut
<1>2. Consumer \subseteq Task
  BY SemAssumption
<1>3. CASE GetTest(t)
  <2>1. PICK x \in {"take", "insert"} : at' = [at EXCEPT ![t] = x]
    BY <1>3 DEF GetTest
  <2>2. at'[t] = x /\ \A u \in Task \ {t} : at'[u] = at[u]
    BY <2>1, GetMoves DEF At
  <2>3. at[t] = "out" /\ wait_list' = wait_list
    BY <1>3 DEF GetTest
  <2>4. Units' = Units
    BY <1>2, <2>2, <2>3, GrantedStays DEF InGet
  <2> QED BY <1>1, <2>4 DEF Kept
<1>4. CASE GetEnlist(t)
  <2>1. at[t] = "insert" /\ at' = [at EXCEPT ![t] = "listed"]
    BY <1>4 DEF GetEnlist
  <2>2. at'[t] = "listed" /\ \A u \in Task \ {t} : at'[u] = at[u]
    BY <2>1, GetMoves DEF At
  <2>3. ToSet(wait_list') = ToSet(wait_list) \cup {t}
    BY <1>4, EnlistAdds
  <2>4. Granted' = Granted
    BY <1>2, <2>1, <2>2, <2>3 DEF Granted, InGet
  <2> QED BY <1>1, <2>4 DEF Kept, Units
<1>5. CASE GetHang(t) \/ GetTimedOut(t) \/ \E n \in Timeouts : GetArm(t, n)
  <2>1. PICK x \in {"asleep", "arm", "timed", "cleanup"} : at' = [at EXCEPT ![t] = x]
    BY <1>5 DEF GetHang, GetArm, GetTimedOut
  <2>2. at'[t] = x /\ \A u \in Task \ {t} : at'[u] = at[u]
    BY <2>1, GetMoves DEF At
  <2>3. at[t] \in {"listed", "arm", "timed"} /\ wait_list' = wait_list
    BY <1>5 DEF GetHang, GetArm, GetTimedOut
  <2>4. Units' = Units
    BY <1>2, <2>2, <2>3, GrantedStays DEF InGet
  <2> QED BY <1>1, <2>4 DEF Kept
<1> QED BY <1>1, <1>3, <1>4, <1>5

LEMMA FlowTake ==
  ASSUME SemInv, UnitTypes, NEW t \in Task, GetTake(t)
  PROVE  Took(t) /\ at'[t] = "out" /\ \A u \in Task \ {t} : at'[u] = at[u]
<1>1. at[t] = "take" /\ at' = [at EXCEPT ![t] = "out"] /\ wait_list' = wait_list
  BY DEF GetTake
<1>2. at'[t] = "out" /\ \A u \in Task \ {t} : at'[u] = at[u]
  BY <1>1, GetMoves DEF At
<1>3. Units' = Units
  BY <1>1, <1>2, GrantedStays, SemAssumption DEF InGet
<1> QED BY <1>2, <1>3 DEF Took

\* A get that ends behind switch_task carries its unit out.
LEMMA FlowEnd ==
  ASSUME SemInv, UnitTypes, IsFiniteSet(Consumer), NEW t \in Task,
         GetReturn(t) \/ GetCleanup(t)
  PROVE  Carried \/ Dropped(t)
<1>1. /\ at[t] \in {"asleep", "timed", "cleanup"} /\ at' = [at EXCEPT ![t] = "out"]
      /\ UNCHANGED <<count, sent>>
  BY DEF GetReturn, GetCleanup
<1>2. at'[t] = "out" /\ \A u \in Task \ {t} : at'[u] = at[u]
  BY <1>1, GetMoves DEF At
<1>3. t \in Consumer /\ InGet(t) /\ ~InGet(t)' /\ Consumer \subseteq Task
  BY <1>1, <1>2, SemAssumption DEF UnitTypes, InGet
<1>4. \A u \in Consumer \ {t} : InGet(u)' <=> InGet(u)
  BY <1>2, <1>3 DEF InGet
<1>5. CASE GetReturn(t)
  <2>1. wait_list' = wait_list /\ taken' = taken + 1
    BY <1>5 DEF GetReturn
  <2>2. t \notin ToSet(wait_list)
    BY <1>5, Unlisted DEF GetReturn
  <2>3. t \in Granted /\ Granted' = Granted \ {t}
    BY <1>3, <1>4, <2>1, <2>2 DEF Granted
  <2>4. Units' = Units - 1
    BY <2>3, GrantedFinite, FS_RemoveElement DEF Units
  <2> QED BY <1>1, <2>1, <2>4 DEF Carried
<1>6. CASE GetCleanup(t)
  <2>1. at[t] = "cleanup" /\ taken' = taken
    BY <1>6 DEF GetCleanup
  <2>2. ToSet(wait_list') = ToSet(wait_list) \ {t}
    BY <1>6, CleanupStep
  <2>3. Granted' \in SUBSET Granted
    BY <1>3, <1>4, <2>2 DEF Granted
  <2>4. Units' <= Units
    BY <2>3, GrantedFinite, FS_Subset DEF Units
  <2> QED BY <1>1, <2>1, <2>4 DEF Dropped
<1> QED BY <1>5, <1>6

LEMMA FlowStep ==
  ASSUME SemInv, UnitTypes, IsFiniteSet(Consumer), [SemNext]_semVars
  PROVE  Kept \/ Added \/ Handed \/ Carried \/ \E t \in Task : Took(t) \/ Dropped(t)
<1>1. CASE KernelStep \/ UNCHANGED semVars
  <2>1. UNCHANGED <<count, wait_list, at, sent, taken>>
    BY <1>1 DEF KernelStep, semVars
  <2>2. Units' = Units
    BY <2>1, GrantedStays DEF InGet
  <2> QED BY <2>1, <2>2 DEF Kept
<1>2. CASE IsrSend \/ \E t \in Task : TaskSend(t)
  <2>1. UNCHANGED <<at, taken>> /\ sent' = sent + 1
        /\ ((wait_list = <<>> /\ AddUnit) \/ \E u \in Consumer : HandUnit(u))
    BY <1>2 DEF IsrSend, TaskSend
  <2> QED BY <2>1, FlowSend
<1>3. ASSUME NEW t \in Task, GetStep(t)
      PROVE  Kept \/ Carried \/ Took(t) \/ Dropped(t)
  BY <1>3, FlowGet, FlowTake, FlowEnd DEF GetStep
<1> QED BY <1>1, <1>2, <1>3 DEF SemNext

\* Only GetTest leads to where a unit is taken, and only consumers get units.
LEMMA PlaceStep ==
  ASSUME SemInv, UnitTypes, [SemNext]_semVars
  PROVE  Relies /\ \A u \in Task : at'[u] # "out" => u \in Consumer
<1>1. CASE UNCHANGED at
  BY <1>1 DEF Relies, UnitTypes
<1>2. ASSUME NEW t \in Task, GetTake(t) \/ GetReturn(t) \/ GetCleanup(t)
      PROVE  Relies /\ \A u \in Task : at'[u] # "out" => u \in Consumer
  <2>1. at' = [at EXCEPT ![t] = "out"]
    BY <1>2 DEF GetTake, GetReturn, GetCleanup
  <2>2. at'[t] = "out" /\ \A u \in Task \ {t} : at'[u] = at[u]
    BY <2>1, GetMoves DEF At
  <2> QED BY <2>2 DEF Relies, UnitTypes
<1>3. ASSUME NEW t \in Task,
             \/ GetEnlist(t) \/ GetHang(t) \/ GetTimedOut(t) \/ \E n \in Timeouts : GetArm(t, n)
      PROVE  Relies /\ \A u \in Task : at'[u] # "out" => u \in Consumer
  <2>1. PICK x \in {"listed", "asleep", "arm", "timed", "cleanup"} : at' = [at EXCEPT ![t] = x]
    BY <1>3 DEF GetEnlist, GetHang, GetArm, GetTimedOut
  <2>2. at'[t] = x /\ \A u \in Task \ {t} : at'[u] = at[u]
    BY <2>1, GetMoves DEF At
  <2>3. t \in Consumer
    BY <1>3, FlowGet
  <2> QED BY <2>2, <2>3 DEF Relies, UnitTypes
<1>4. ASSUME NEW t \in Task, GetTest(t)
      PROVE  Relies /\ \A u \in Task : at'[u] # "out" => u \in Consumer
  <2>1. PICK x \in {"take", "insert"} : at' = [at EXCEPT ![t] = x] /\ (x = "take" => count > 0)
    BY <1>4 DEF GetTest
  <2>2. at'[t] = x /\ \A u \in Task \ {t} : at'[u] = at[u]
    BY <2>1, GetMoves DEF At
  <2>3. Kept /\ t \in Consumer
    BY <1>4, FlowGet
  <2> QED BY <2>1, <2>2, <2>3 DEF Relies, UnitTypes
<1>5. KernelStep \/ IsrSend \/ (\E t \in Task : TaskSend(t)) \/ UNCHANGED semVars => UNCHANGED at
  BY DEF KernelStep, IsrSend, TaskSend, semVars
<1> QED BY <1>1, <1>2, <1>3, <1>4, <1>5 DEF SemNext, GetStep

\* The count stays within its width.
LEMMA CountRange ==
  ASSUME NEW m \in Nat \ {0, 1}, NEW k \in 0..(m-1)
  PROVE  (k + 1) % m \in 0..(m-1) /\ (k + m - 1) % m \in 0..(m-1)
<1>1. (k + 0) % m = k % m /\ 0 \in Nat /\ k \in Nat
  OBVIOUS
<1> QED BY <1>1, CountUp, CountDown

LEMMA UnitTypesStep ==
  ASSUME SemInv, UnitTypes, IsFiniteSet(Consumer), [SemNext]_semVars
  PROVE  UnitTypes'
<1>1. \A t \in Task : at'[t] # "out" => t \in Consumer
  BY PlaceStep
<1>2. /\ count \in 0..(CountMod - 1) /\ sent \in Nat /\ taken \in Nat
      /\ CountMod \in Nat \ {0, 1}
  BY SemAssumption DEF UnitTypes
<1>3. count' \in 0..(CountMod - 1) /\ sent' \in Nat /\ taken' \in Nat
  <2>1. CASE Kept \/ Handed \/ Carried \/ \E t \in Task : Dropped(t)
    BY <1>2, <2>1 DEF Kept, Handed, Carried, Dropped
  <2>2. CASE Added
    BY <1>2, <2>2, CountRange DEF Added, AddUnit
  <2>3. ASSUME NEW t \in Task, Took(t)
        PROVE  count' \in 0..(CountMod - 1) /\ sent' \in Nat /\ taken' \in Nat
    <3>1. sent' = sent /\ taken' = taken + 1 /\ count' = (count + CountMod - 1) % CountMod
      BY <2>3 DEF Took, GetTake
    <3> QED BY <1>2, <3>1, CountRange
  <2> QED BY <2>1, <2>2, <2>3, FlowStep
<1> QED BY <1>1, <1>3 DEF UnitTypes

LEMMA UnitsStart ==
  ASSUME SemInit
  PROVE  UnitTypes /\ Units = 0 /\ count = 0 /\ sent = 0 /\ taken = 0
<1>1. count = 0 /\ sent = 0 /\ taken = 0 /\ at = [t \in Task |-> "out"]
  BY DEF SemInit
<1>2. Granted = {}
  BY <1>1, SemAssumption DEF Granted, InGet
<1> QED BY <1>1, <1>2, FS_EmptySet, SemAssumption DEF UnitTypes, Units

-----------------------------------------------------------------------------
LEMMA ConservedStep ==
  ASSUME UnitTypes, Units \in Nat, Units' \in Nat, Conserved,
         Kept \/ Added \/ Handed \/ Carried \/ \E t \in Task : Took(t)
  PROVE  Conserved'
<1> DEFINE n == taken + Units
<1>1. /\ n \in Nat /\ count \in 0..(CountMod - 1) /\ CountMod \in Nat \ {0, 1}
      /\ taken \in Nat /\ sent \in Nat /\ count + n \in Nat /\ count + n = count + taken + Units
      /\ n + 1 = taken + 1 + Units
  BY SemAssumption DEF UnitTypes
<1>2. (count + n) % CountMod = sent % CountMod
  BY <1>1 DEF Conserved, Units
<1> HIDE DEF n
<1>3. Conserved' <=> (count' + taken' + Units') % CountMod = sent' % CountMod
  BY DEF Conserved, Units
<1>4. CASE Kept \/ Carried
  <2>1. count' + taken' + Units' = count + n /\ sent' = sent
    BY <1>1, <1>4 DEF Kept, Carried
  <2> QED BY <1>2, <1>3, <2>1
<1>5. CASE Handed
  <2>1. count' + taken' + Units' = (count + n) + 1 /\ sent' = sent + 1
    BY <1>1, <1>5 DEF Handed
  <2>2. ((count + n) + 1) % CountMod = (sent + 1) % CountMod
    <3>1. CountMod \in Nat \ {0}
      BY <1>1
    <3> QED BY <1>1, <1>2, <3>1, ModNext
  <2> QED BY <1>3, <2>1, <2>2
<1>6. CASE Added
  <2>1. count' \in 0..(CountMod - 1) /\ (count' + n) % CountMod = sent' % CountMod
    BY <1>1, <1>2, <1>6, CountUp DEF Added, AddUnit
  <2>2. count' + taken' + Units' = count' + n
    <3>1. taken' = taken /\ Units' = Units
      BY <1>6 DEF Added
    <3> QED BY <1>1, <2>1, <3>1 DEF n
  <2> QED BY <1>3, <2>1, <2>2
<1>7. ASSUME NEW t \in Task, Took(t) PROVE Conserved'
  <2>1. /\ count' = (count + CountMod - 1) % CountMod /\ taken' = taken + 1 /\ sent' = sent
        /\ Units' = Units
    BY <1>7 DEF Took, GetTake
  <2>2. /\ count' \in 0..(CountMod - 1)
        /\ (count' + (n + 1)) % CountMod = (count + n) % CountMod
    BY <1>1, <2>1, CountDown
  <2>3. count' + taken' + Units' = count' + (n + 1)
    BY <1>1, <2>1, <2>2
  <2> QED BY <1>2, <1>3, <2>1, <2>2, <2>3
<1> QED BY <1>4, <1>5, <1>6, <1>7

(***************************************************************************)
(* Every unit sent is in the count, on its way to one consumer or taken,   *)
(* up to the wrap of the uint8_t, for any tasks and any width of the       *)
(* count: a unit sent between the test of the count and the step that      *)
(* relies on it (kernel/sem.c:63) is neither lost nor spent twice.         *)
(***************************************************************************)
THEOREM UnitsConserved ==
  ASSUME Timeouts = {}, IsFiniteSet(Consumer)
  PROVE  SemSpec => []Conserved
<1>1. SemInit => UnitTypes /\ Conserved
  BY UnitsStart DEF Conserved, Units
<1>2. SemInv /\ Timeless /\ UnitTypes /\ Conserved /\ [SemNext]_semVars
        => UnitTypes' /\ Conserved'
  <2> SUFFICES ASSUME SemInv, Timeless, UnitTypes, Conserved, [SemNext]_semVars
               PROVE  UnitTypes' /\ Conserved'
    OBVIOUS
  <2>1. Kept \/ Added \/ Handed \/ Carried \/ \E t \in Task : Took(t)
    BY FlowStep DEF Timeless, Dropped
  <2> QED BY <2>1, UnitTypesStep, ConservedStep, GrantedFinite
<1> QED BY <1>1, <1>2, TimelessSafe, PTL DEF SemSpec

-----------------------------------------------------------------------------
(***************************************************************************)
(* No more units are anywhere than were sent; and whoever is about to take *)
(* one finds it, or so many have been sent that the count came round to 0. *)
(***************************************************************************)
Backed ==
  /\ count + taken + Units <= sent
  /\ \A t \in Task : at[t] = "take" => count > 0 \/ count + taken + Units + CountMod <= sent

\* A wrapping counter loses a round when it wraps and gains one below 0.
LEMMA CountNext ==
  ASSUME NEW m \in Nat \ {0, 1}, NEW k \in 0..(m-1)
  PROVE  /\ (k + 1) % m = k + 1 \/ (k + 1 = m /\ (k + 1) % m = 0)
         /\ k > 0 => (k + m - 1) % m = k - 1
         /\ k = 0 => (k + m - 1) % m = m - 1
<1>1. /\ k + 1 \in Nat /\ (k + 1 < m \/ k + 1 = m)
      /\ k > 0 => k - 1 \in Nat /\ k - 1 < m /\ k + m - 1 = (k - 1) + m
      /\ k = 0 => k + m - 1 = m - 1
      /\ m - 1 \in Nat /\ m - 1 < m /\ m \in Nat \ {0} /\ m = 0 + m /\ 0 < m /\ 0 \in Nat
  OBVIOUS
<1>2. m % m = 0
  <2>1. (0 + m) % m = 0 % m /\ 0 % m = 0
    BY <1>1, ModRound
  <2> QED BY <1>1, <2>1
<1>3. k + 1 < m => (k + 1) % m = k + 1
  BY <1>1, ModRound
<1>4. k > 0 => (k + m - 1) % m = k - 1
  <2>1. k > 0 => ((k - 1) + m) % m = (k - 1) % m /\ (k - 1) % m = k - 1
    BY <1>1, ModRound
  <2> QED BY <1>1, <2>1
<1>5. (m - 1) % m = m - 1
  BY <1>1, ModRound
<1> QED BY <1>1, <1>2, <1>3, <1>4, <1>5

LEMMA Fewer ==
  ASSUME NEW k \in Nat, NEW n \in Nat, NEW u \in Nat, NEW v \in Nat, v <= u
  PROVE  k + n + u \in Nat /\ k + n + v \in Nat /\ k + n + v <= k + n + u
OBVIOUS

LEMMA FewerFit ==
  ASSUME NEW n \in Nat, NEW k \in Nat, NEW s \in Nat, NEW m \in Nat, k <= n, n <= s
  PROVE  k <= s /\ (n + m <= s => k + m <= s)
OBVIOUS

LEMMA BackedStep ==
  ASSUME \A x, y \in Consumer : x = y, IsFiniteSet(Consumer),
         SemInv, UnitTypes, Backed, [SemNext]_semVars
  PROVE  Backed'
<1> DEFINE Sum == count + taken + Units
           Spare == count > 0 \/ Sum + CountMod <= sent
<1>1. /\ count \in 0..(CountMod - 1) /\ sent \in Nat /\ taken \in Nat
      /\ CountMod \in Nat \ {0, 1} /\ Units \in Nat /\ Units' \in Nat /\ Sum <= sent
  BY SemAssumption, GrantedFinite DEF UnitTypes, Backed
<1>2. Relies /\ \A t \in Task : at[t] = "take" => Spare
  BY PlaceStep DEF Backed
<1>3. CASE Kept \/ Handed \/ Carried \/ Added
  <2>1. Sum' <= sent' /\ (Spare => Spare')
    <3>1. CASE Kept \/ Handed \/ Carried
      BY <1>1, <3>1 DEF Kept, Handed, Carried
    <3>2. CASE Added
      <4>1. /\ sent' = sent + 1 /\ taken' = taken /\ Units' = Units
            /\ count' = count + 1 \/ (count + 1 = CountMod /\ count' = 0)
        BY <1>1, <3>2, CountNext DEF Added, AddUnit
      <4> QED BY <1>1, <4>1
    <3> QED BY <1>3, <3>1, <3>2
  <2>2. ASSUME NEW t \in Task, at'[t] = "take" PROVE Spare'
    <3>1. Spare
      BY <1>2, <2>2 DEF Relies
    <3> QED BY <2>1, <3>1
  <2> QED BY <2>1, <2>2 DEF Backed
<1>4. ASSUME NEW t \in Task, Took(t) PROVE Backed'
  <2>1. /\ at[t] = "take" /\ at'[t] = "out" /\ \A u \in Task \ {t} : at'[u] = at[u]
        /\ count' = (count + CountMod - 1) % CountMod /\ taken' = taken + 1 /\ sent' = sent
        /\ Units' = Units
    BY <1>4, FlowTake DEF Took, GetTake
  <2>2. \A u \in Task : at'[u] # "take"
    BY <2>1 DEF UnitTypes
  <2>3. Spare
    BY <1>2, <2>1
  <2>4. count' = count - 1 \/ (count = 0 /\ count' = CountMod - 1)
    <3>1. CountMod \in Nat \ {0, 1} /\ count \in 0..(CountMod - 1) /\ (count > 0 \/ count = 0)
      BY <1>1
    <3>2. /\ count > 0 => (count + CountMod - 1) % CountMod = count - 1
          /\ count = 0 => (count + CountMod - 1) % CountMod = CountMod - 1
      BY <3>1, CountNext
    <3> QED BY <2>1, <3>1, <3>2
  <2>5. Sum' <= sent'
    BY <1>1, <2>1, <2>3, <2>4
  <2> QED BY <2>2, <2>5 DEF Backed
<1>5. ASSUME NEW t \in Task, Dropped(t) PROVE Backed'
  <2>1. count' = count /\ sent' = sent /\ taken' = taken /\ Units' <= Units
    BY <1>5 DEF Dropped
  <2>2. Sum' <= sent' /\ (Spare => Spare')
    <3>1. /\ count \in Nat /\ taken \in Nat /\ Units \in Nat /\ Units' \in Nat
          /\ Units' <= Units
      BY <1>1, <2>1
    <3>2. Sum' = count + taken + Units'
      BY <2>1
    <3>3. Sum \in Nat /\ Sum' \in Nat /\ Sum' <= Sum
      BY <3>1, <3>2, Fewer
    <3> HIDE DEF Sum
    <3>4. Sum' <= sent /\ (Sum + CountMod <= sent => Sum' + CountMod <= sent)
      <4>1. sent \in Nat /\ CountMod \in Nat /\ Sum <= sent
        BY <1>1
      <4> QED BY <3>3, <4>1, FewerFit
    <3> QED BY <2>1, <3>4
  <2>3. ASSUME NEW u \in Task, at'[u] = "take" PROVE Spare'
    <3>1. Spare
      BY <1>2, <2>3 DEF Relies
    <3> QED BY <2>2, <3>1
  <2> QED BY <2>2, <2>3 DEF Backed
<1> QED BY <1>3, <1>4, <1>5, FlowStep

(***************************************************************************)
(* With one consumer no get succeeds without a unit that was sent,         *)
(* whatever the timeouts and the width of the count: the mark of a timeout *)
(* that is noticed late loses a unit and never makes one (kernel/sem.c:63, *)
(* 101).  With two, both may take the last unit and the count wraps.       *)
(***************************************************************************)
THEOREM NoUnitIsMade ==
  ASSUME \A x, y \in Consumer : x = y
  PROVE  SemSpec => []NoUnitMade
<1>1. IsFiniteSet(Consumer)
  <2>1. CASE Consumer = {}
    BY <2>1, FS_EmptySet
  <2>2. ASSUME NEW x \in Consumer PROVE IsFiniteSet(Consumer)
    <3>1. Consumer = {x}
      BY <2>2
    <3> QED BY <3>1, FS_Singleton
  <2> QED BY <2>1, <2>2
<1>2. SemInit => UnitTypes /\ Backed
  <2> SUFFICES ASSUME SemInit PROVE UnitTypes /\ Backed
    OBVIOUS
  <2>1. at = [t \in Task |-> "out"]
    BY DEF SemInit
  <2> QED BY <2>1, UnitsStart DEF Backed
<1>3. SemInv /\ UnitTypes /\ Backed /\ [SemNext]_semVars => UnitTypes' /\ Backed'
  BY <1>1, UnitTypesStep, BackedStep
<1>4. UnitTypes /\ Backed => NoUnitMade
  <2> SUFFICES ASSUME UnitTypes, Backed PROVE NoUnitMade
    OBVIOUS
  <2> DEFINE G == {t \in Granted : ~flag[t]}
  <2>1. G \in SUBSET Granted
    OBVIOUS
  <2>2. IsFiniteSet(Granted) /\ Units \in Nat
    BY <1>1, GrantedFinite
  <2>3. Cardinality(G) <= Units /\ Cardinality(G) \in Nat
    BY <2>1, <2>2, FS_Subset, FS_CardinalityType DEF Units
  <2>4. NoUnitMade <=> count + taken + Cardinality(G) <= sent
    BY DEF NoUnitMade
  <2> HIDE DEF G
  <2> QED BY <2>2, <2>3, <2>4 DEF Backed, UnitTypes
<1> QED BY <1>2, <1>3, <1>4, SemSafe, PTL DEF SemSpec

=============================================================================
