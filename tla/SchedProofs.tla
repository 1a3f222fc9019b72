---------------------------- MODULE SchedProofs ----------------------------
(***************************************************************************)
(* Sched keeps its ready lists, bitmap, task states and timers in          *)
(* agreement, for any tasks, priorities, time slices and durations.        *)
(*                                                                         *)
(* The properties are not inductive one by one.  That a task's code never  *)
(* runs while the task is blocked needs NestOK, because switch_task does   *)
(* nothing while the scheduler is locked; that switch_task finds a list    *)
(* that is not empty needs the idle task to be runnable; that a timeout    *)
(* never moves a closed task needs every timer to be on the list once.     *)
(* Inv puts them together; each action has a lemma that it preserves Inv.  *)
(* Inv holds of whatever else runs on this kernel, timeouts that come late *)
(* included; that a timeout finds a waiting task is shown on top of it.    *)
(*                                                                         *)
(* The first part is about the primitives of SchOps: each keeps the lists, *)
(* the bitmap and the states of the tasks in agreement.                    *)
(***************************************************************************)
EXTENDS Sched, TimerOpsProofs

\* Agreement of lists, bitmap and states, with every task still on the
\* priority it was created with.
KInv(k) ==
  /\ k \in SchType
  /\ k.prio = InitPriority
  /\ ListsExact(k)
  /\ BitmapExact(k)
  /\ CloseExact(k)

\* The same for everybody but t, whose node may be on the ready list of its
\* priority or on close_task_list whatever its status says.
OthersExact(k, t) ==
  /\ k \in SchType
  /\ k.prio = InitPriority
  /\ \A p \in Prio :
       /\ NoDup(k.ready[p])
       /\ \A u \in Task \ {t} : u \in ToSet(k.ready[p]) <=>
                                  k.status[u] \in Runnable /\ k.prio[u] = p
  /\ \A p \in Prio \ {k.prio[t]} :
       t \notin ToSet(k.ready[p]) /\ (p \in k.mask <=> k.ready[p] # <<>>)
  /\ NoDup(k.close)
  /\ \A u \in ToSet(k.close) \ {t} : k.status[u] = "close"

\* The same, with t's node on no list.
Loose(k, t) ==
  /\ OthersExact(k, t)
  /\ t \notin ToSet(k.ready[k.prio[t]])
  /\ t \notin ToSet(k.close)

(***************************************************************************)
(* The fields of the scheduler's state have their types.                   *)
(***************************************************************************)
LEMMA SchFields ==
  ASSUME NEW k \in SchType
  PROVE  /\ k.ready \in [Prio -> Seq(Task)]
         /\ k.mask \in SUBSET Prio
         /\ k.close \in Seq(Task)
         /\ k.status \in [Task -> Status]
         /\ k.prio \in [Task -> Prio]
         /\ k.cur \in Task \cup {NoTask}
         /\ k.nest \in Nat
BY DEF SchType

(***************************************************************************)
(* An assignment to a task's status changes that status and nothing else.  *)
(***************************************************************************)
LEMMA SetStatusFields ==
  ASSUME NEW k \in SchType, NEW t \in Task, NEW s \in Status
  PROVE  /\ SetStatus(k, t, s) \in SchType
         /\ SetStatus(k, t, s).status = [k.status EXCEPT ![t] = s]
         /\ SetStatus(k, t, s).ready = k.ready
         /\ SetStatus(k, t, s).mask = k.mask
         /\ SetStatus(k, t, s).close = k.close
         /\ SetStatus(k, t, s).prio = k.prio
         /\ SetStatus(k, t, s).cur = k.cur
         /\ SetStatus(k, t, s).nest = k.nest
BY DEF SchType, SetStatus

(***************************************************************************)
(* Agreement is agreement for everybody but t, for any t.                  *)
(***************************************************************************)
LEMMA AgreementSplits ==
  ASSUME NEW k, KInv(k), NEW t \in Task
  PROVE  OthersExact(k, t)
<1>1. k \in SchType
  BY DEF KInv
<1> QED
  BY <1>1, SchFields DEF KInv, OthersExact, ListsExact, BitmapExact, CloseExact

(***************************************************************************)
(* Agreement for everybody but t survives a change of t's status.          *)
(***************************************************************************)
LEMMA StatusOfOther ==
  ASSUME NEW k, NEW t \in Task, OthersExact(k, t), NEW s \in Status
  PROVE  OthersExact(SetStatus(k, t, s), t)
<1> DEFINE u == SetStatus(k, t, s)
<1>1. k \in SchType
  BY DEF OthersExact
<1>2. /\ u \in SchType /\ u.status = [k.status EXCEPT ![t] = s]
      /\ u.ready = k.ready /\ u.mask = k.mask /\ u.close = k.close
      /\ u.prio = k.prio
  BY <1>1, SetStatusFields
<1> HIDE DEF u
<1>3. \A v \in Task \ {t} : u.status[v] = k.status[v]
  BY <1>1, <1>2, SchFields
<1>4. ToSet(k.close) \subseteq Task
  BY <1>1, SchFields DEF ToSet
<1>5. \A p \in Prio :
        /\ NoDup(u.ready[p])
        /\ \A v \in Task \ {t} : v \in ToSet(u.ready[p]) <=>
                                   u.status[v] \in Runnable /\ u.prio[v] = p
  BY <1>2, <1>3 DEF OthersExact
<1>6. \A p \in Prio \ {u.prio[t]} :
        t \notin ToSet(u.ready[p]) /\ (p \in u.mask <=> u.ready[p] # <<>>)
  BY <1>2 DEF OthersExact
<1>7. NoDup(u.close) /\ \A v \in ToSet(u.close) \ {t} : u.status[v] = "close"
  BY <1>2, <1>3, <1>4 DEF OthersExact
<1>8. u.prio = InitPriority
  BY <1>2 DEF OthersExact
<1> QED BY <1>2, <1>5, <1>6, <1>7, <1>8 DEF OthersExact, u

(***************************************************************************)
(* list_del(&task->list) leaves the node on no list.                       *)
(***************************************************************************)
LEMMA UnlinkLoosens ==
  ASSUME NEW k, NEW t \in Task, OthersExact(k, t)
  PROVE  /\ Loose(Unlink(k, t), t)
         /\ Unlink(k, t).status = k.status
         /\ Unlink(k, t).prio = k.prio
         /\ Unlink(k, t).mask = k.mask
         /\ Unlink(k, t).cur = k.cur
         /\ Unlink(k, t).nest = k.nest
         /\ \A p \in Prio : Unlink(k, t).ready[p] = ListDel(k.ready[p], t)
         /\ Unlink(k, t).close = ListDel(k.close, t)
<1> DEFINE u == Unlink(k, t)
<1>1. k \in SchType
  BY DEF OthersExact
<1>2. \A p \in Prio : /\ ListDel(k.ready[p], t) \in Seq(Task)
                      /\ NoDup(ListDel(k.ready[p], t))
                      /\ ToSet(ListDel(k.ready[p], t)) = ToSet(k.ready[p]) \ {t}
  BY <1>1, SchFields, ListDelProperties DEF OthersExact
<1>3. /\ ListDel(k.close, t) \in Seq(Task)
      /\ NoDup(ListDel(k.close, t))
      /\ ToSet(ListDel(k.close, t)) = ToSet(k.close) \ {t}
  BY <1>1, SchFields, ListDelProperties DEF OthersExact
<1>4. /\ u \in SchType
      /\ u.ready = [p \in Prio |-> ListDel(k.ready[p], t)]
      /\ u.close = ListDel(k.close, t)
      /\ u.status = k.status /\ u.prio = k.prio /\ u.mask = k.mask
      /\ u.cur = k.cur /\ u.nest = k.nest
  BY <1>1, <1>2, <1>3 DEF SchType, Unlink
<1> HIDE DEF u
<1>5. \A p \in Prio \ {k.prio[t]} : ListDel(k.ready[p], t) = k.ready[p]
  BY <1>1, SchFields, ListDelAbsent DEF OthersExact
<1>6. OthersExact(u, t)
  <2>1. u \in SchType /\ u.prio = InitPriority
    BY <1>4 DEF OthersExact
  <2>2. ASSUME NEW p \in Prio
        PROVE  /\ NoDup(u.ready[p])
               /\ \A v \in Task \ {t} : v \in ToSet(u.ready[p]) <=>
                                  u.status[v] \in Runnable /\ u.prio[v] = p
    <3>1. u.ready[p] = ListDel(k.ready[p], t)
      BY <1>4
    <3>2. \A v \in Task \ {t} : v \in ToSet(u.ready[p]) <=> v \in ToSet(k.ready[p])
      BY <1>2, <3>1
    <3>3. \A v \in Task \ {t} : v \in ToSet(k.ready[p]) <=>
                                  k.status[v] \in Runnable /\ k.prio[v] = p
      BY DEF OthersExact
    <3> QED BY <1>2, <1>4, <3>1, <3>2, <3>3
  <2>3. ASSUME NEW p \in Prio \ {u.prio[t]}
        PROVE  t \notin ToSet(u.ready[p]) /\ (p \in u.mask <=> u.ready[p] # <<>>)
    BY <1>4, <1>5 DEF OthersExact
  <2>4. NoDup(u.close) /\ \A v \in ToSet(u.close) \ {t} : u.status[v] = "close"
    BY <1>3, <1>4 DEF OthersExact
  <2> QED BY <2>1, <2>2, <2>3, <2>4 DEF OthersExact
<1>7. k.prio[t] \in Prio
  BY <1>1, SchFields
<1>8. t \notin ToSet(u.ready[u.prio[t]]) /\ t \notin ToSet(u.close)
  BY <1>2, <1>3, <1>4, <1>7
<1> QED
  BY <1>4, <1>6, <1>8 DEF Loose, u

(***************************************************************************)
(* add_task_to_ready_list restores agreement: the bit set is that of the   *)
(* list the task joins, because its priority is the one it was created     *)
(* with.                                                                   *)
(***************************************************************************)
LEMMA AddAgrees ==
  ASSUME NEW k, NEW t \in Task, Loose(k, t)
  PROVE  /\ KInv(add_task_to_ready_list(k, t))
         /\ add_task_to_ready_list(k, t).status = [k.status EXCEPT ![t] = "ready"]
         /\ add_task_to_ready_list(k, t).cur = k.cur
         /\ add_task_to_ready_list(k, t).nest = k.nest
         /\ add_task_to_ready_list(k, t).close = k.close
<1> DEFINE a == add_task_to_ready_list(k, t)
           q == k.prio[t]
           l == ListAddTail(k.ready[q], t)
<1>1. k \in SchType /\ OthersExact(k, t)
  BY DEF Loose, OthersExact
<1>2. q \in Prio /\ q = InitPriority[t]
  BY <1>1, SchFields DEF OthersExact
<1>3. /\ l \in Seq(Task) /\ l # <<>> /\ NoDup(l)
      /\ ToSet(l) = ToSet(k.ready[q]) \cup {t}
  BY <1>1, <1>2, SchFields, ListAddTailProperties DEF Loose, OthersExact
<1>4. /\ a \in SchType
      /\ a.status = [k.status EXCEPT ![t] = "ready"]
      /\ a.ready = [k.ready EXCEPT ![q] = l]
      /\ a.mask = k.mask \cup {q}
      /\ a.close = k.close
      /\ a.prio = k.prio
      /\ a.cur = k.cur
      /\ a.nest = k.nest
  <2>1. OffsetMask(t) = {q}
    BY <1>2 DEF OffsetMask
  <2>2. "ready" \in Status
    BY DEF Status
  <2> HIDE DEF l, q
  <2> QED BY <2>1, <2>2, <1>1, <1>2, <1>3, SchFields
          DEF SchType, add_task_to_ready_list, l, q
<1> HIDE DEF a, l, q
<1>5. ListsExact(a)
  <2>1. ASSUME NEW p \in Prio
        PROVE  /\ NoDup(a.ready[p])
               /\ \A u \in Task : u \in ToSet(a.ready[p]) <=>
                                    a.status[u] \in Runnable /\ a.prio[u] = p
    <3>1. CASE p = q
      BY <3>1, <1>1, <1>3, <1>4, SchFields DEF OthersExact, Runnable, q
    <3>2. CASE p # q
      BY <3>2, <1>1, <1>4, SchFields DEF OthersExact, Runnable, q
    <3> QED BY <3>1, <3>2
  <2> QED BY <2>1 DEF ListsExact
<1>6. BitmapExact(a)
  <2>1. ASSUME NEW p \in Prio PROVE p \in a.mask <=> a.ready[p] # <<>>
    <3>1. CASE p = q
      BY <3>1, <1>1, <1>3, <1>4, SchFields
    <3>2. CASE p # q
      BY <3>2, <1>1, <1>4, SchFields DEF OthersExact, q
    <3> QED BY <3>1, <3>2
  <2>2. a.mask \subseteq Prio
    BY <1>4, SchFields
  <2> QED BY <2>1, <2>2 DEF BitmapExact
<1>7. CloseExact(a)
  BY <1>1, <1>4, SchFields DEF CloseExact, Loose, OthersExact
<1>8. a.prio = InitPriority
  BY <1>1, <1>4 DEF OthersExact
<1> QED
  BY <1>4, <1>5, <1>6, <1>7, <1>8 DEF KInv, a

-----------------------------------------------------------------------------
(***************************************************************************)
(* Agreement depends on the lists, the bitmap, the priorities and on which *)
(* tasks are runnable, and on nothing else.                                *)
(***************************************************************************)
LEMMA SameQueues ==
  ASSUME NEW k, KInv(k), NEW m \in SchType,
         m.ready = k.ready, m.mask = k.mask, m.close = k.close, m.prio = k.prio,
         \A v \in Task : m.status[v] \in Runnable <=> k.status[v] \in Runnable,
         \A v \in ToSet(k.close) : m.status[v] = "close"
  PROVE  KInv(m)
<1>1. ListsExact(m)
  BY DEF KInv, ListsExact
<1>2. BitmapExact(m)
  BY DEF KInv, BitmapExact
<1>3. CloseExact(m)
  BY DEF KInv, CloseExact
<1> QED BY <1>1, <1>2, <1>3 DEF KInv

(***************************************************************************)
(* A task on no list that is not runnable is in agreement with the lists.  *)
(***************************************************************************)
LEMMA LooseLists ==
  ASSUME NEW k, NEW t \in Task, Loose(k, t), k.status[t] \notin Runnable
  PROVE  ListsExact(k)
<1>1. \A p \in Prio : t \notin ToSet(k.ready[p])
  BY DEF Loose, OthersExact
<1>2. ASSUME NEW p \in Prio
      PROVE  /\ NoDup(k.ready[p])
             /\ \A u \in Task : u \in ToSet(k.ready[p]) <=>
                                  k.status[u] \in Runnable /\ k.prio[u] = p
  <2>1. NoDup(k.ready[p])
    BY DEF Loose, OthersExact
  <2>2. \A u \in Task \ {t} : u \in ToSet(k.ready[p]) <=>
                                  k.status[u] \in Runnable /\ k.prio[u] = p
    BY DEF Loose, OthersExact
  <2> QED BY <2>1, <2>2, <1>1
<1> QED BY <1>2 DEF ListsExact

(***************************************************************************)
(* Once the bitmap agrees as well, everything does.                        *)
(***************************************************************************)
LEMMA LooseAgrees ==
  ASSUME NEW k, NEW t \in Task, Loose(k, t), BitmapExact(k),
         k.status[t] \notin Runnable
  PROVE  KInv(k)
<1>1. k \in SchType /\ k.prio = InitPriority
  BY DEF Loose, OthersExact
<1>2. CloseExact(k)
  BY DEF CloseExact, Loose, OthersExact
<1> QED BY <1>1, <1>2, LooseLists DEF KInv

(***************************************************************************)
(* del_task_to_ready_list takes the node off its list, and clears the bit  *)
(* of that list, if it was set, exactly when it was the last node on it.   *)
(***************************************************************************)
LEMMA DelLoosens ==
  ASSUME NEW k, NEW t \in Task, OthersExact(k, t)
  PROVE  /\ Loose(del_task_to_ready_list(k, t), t)
         /\ k.prio[t] \in k.mask => BitmapExact(del_task_to_ready_list(k, t))
         /\ del_task_to_ready_list(k, t).status = k.status
         /\ del_task_to_ready_list(k, t).close = ListDel(k.close, t)
         /\ del_task_to_ready_list(k, t).cur = k.cur
         /\ del_task_to_ready_list(k, t).nest = k.nest
<1> DEFINE u == Unlink(k, t)
           d == del_task_to_ready_list(k, t)
           q == k.prio[t]
<1>1. k \in SchType
  BY DEF OthersExact
<1>2. q \in Prio /\ OffsetMask(t) = {q}
  BY <1>1, SchFields DEF OthersExact, OffsetMask
<1>3. /\ Loose(u, t) /\ u.status = k.status /\ u.prio = k.prio /\ u.mask = k.mask
      /\ u.cur = k.cur /\ u.nest = k.nest /\ u.close = ListDel(k.close, t)
  BY UnlinkLoosens
<1>4. u \in SchType /\ OthersExact(u, t)
  BY <1>3 DEF Loose, OthersExact
<1> HIDE DEF u, q
<1>5. /\ d \in SchType
      /\ d.mask = IF u.ready[q] = <<>> THEN k.mask \ {q} ELSE k.mask
      /\ d.ready = u.ready /\ d.close = u.close /\ d.status = u.status
      /\ d.prio = u.prio /\ d.cur = u.cur /\ d.nest = u.nest
  BY <1>1, <1>2, <1>4, SchFields DEF SchType, del_task_to_ready_list, u, q
<1> HIDE DEF d
<1>6. OthersExact(d, t)
  <2>1. d.prio[t] = q
    BY <1>3, <1>5 DEF q
  <2>2. \A p \in Prio \ {q} :
          t \notin ToSet(d.ready[p]) /\ (p \in d.mask <=> d.ready[p] # <<>>)
    BY <1>3, <1>4, <1>5 DEF OthersExact, q
  <2>3. \A p \in Prio :
       /\ NoDup(d.ready[p])
       /\ \A v \in Task \ {t} : v \in ToSet(d.ready[p]) <=>
                                  d.status[v] \in Runnable /\ d.prio[v] = p
    BY <1>4, <1>5 DEF OthersExact
  <2>4. d.prio = InitPriority
    BY <1>4, <1>5 DEF OthersExact
  <2>5. NoDup(d.close) /\ \A v \in ToSet(d.close) \ {t} : d.status[v] = "close"
    BY <1>4, <1>5 DEF OthersExact
  <2> QED BY <2>1, <2>2, <2>3, <2>4, <2>5, <1>5 DEF OthersExact
<1>7. Loose(d, t)
  BY <1>3, <1>5, <1>6 DEF Loose
<1>8. ASSUME k.prio[t] \in k.mask PROVE BitmapExact(d)
  <2>1. ASSUME NEW p \in Prio PROVE p \in d.mask <=> d.ready[p] # <<>>
    <3>1. CASE p = q
      BY <3>1, <1>5, <1>8 DEF q
    <3>2. CASE p # q
      BY <3>2, <1>6, <1>5, <1>3 DEF OthersExact, q
    <3> QED BY <3>1, <3>2
  <2>2. d.mask \subseteq Prio
    BY <1>5, SchFields
  <2> QED BY <2>1, <2>2 DEF BitmapExact
<1> QED
  BY <1>3, <1>5, <1>7, <1>8 DEF d

(***************************************************************************)
(* The bit of a runnable task's priority is set, and its list holds it.    *)
(***************************************************************************)
LEMMA RunnableListed ==
  ASSUME NEW k, KInv(k), NEW t \in Task, k.status[t] \in Runnable
  PROVE  /\ k.prio[t] \in Prio
         /\ t \in ToSet(k.ready[k.prio[t]])
         /\ k.prio[t] \in k.mask
<1>1. k.prio[t] \in Prio
  BY SchFields DEF KInv
<1>2. t \in ToSet(k.ready[k.prio[t]])
  BY <1>1 DEF KInv, ListsExact
<1>3. k.ready[k.prio[t]] # <<>>
  BY <1>2 DEF ToSet
<1> QED BY <1>1, <1>2, <1>3 DEF KInv, BitmapExact

(***************************************************************************)
(* task_hang of a runnable task keeps agreement.                           *)
(***************************************************************************)
LEMMA HangAgrees ==
  ASSUME NEW k, KInv(k), NEW t \in Task, k.status[t] \in Runnable
  PROVE  /\ KInv(hang(k, t))
         /\ hang(k, t).status = [k.status EXCEPT ![t] = "wait"]
         /\ hang(k, t).cur = k.cur
         /\ hang(k, t).nest = k.nest
         /\ hang(k, t).close = ListDel(k.close, t)
<1> DEFINE w == SetStatus(k, t, "wait")
<1>1. k \in SchType /\ "wait" \in Status /\ "wait" \notin Runnable
  BY DEF KInv, Status, Runnable
<1>2. OthersExact(w, t)
  BY <1>1, AgreementSplits, StatusOfOther
<1>3. /\ w.prio = k.prio /\ w.mask = k.mask /\ w.cur = k.cur /\ w.nest = k.nest
      /\ w.status = [k.status EXCEPT ![t] = "wait"] /\ w.close = k.close
  BY <1>1, SetStatusFields
<1>4. w.prio[t] \in w.mask
  BY <1>3, RunnableListed
<1>5. w.status[t] = "wait"
  BY <1>1, <1>3, SchFields
<1> HIDE DEF w
<1>6. hang(k, t) = del_task_to_ready_list(w, t)
  BY DEF hang, w
<1> QED
  BY <1>1, <1>2, <1>3, <1>4, <1>5, <1>6, DelLoosens, LooseAgrees

(***************************************************************************)
(* task_resume keeps agreement, whatever the task's state was.             *)
(***************************************************************************)
LEMMA ResumeAgrees ==
  ASSUME NEW k, KInv(k), NEW t \in Task
  PROVE  /\ KInv(resume(k, t))
         /\ resume(k, t).status = [k.status EXCEPT ![t] = "ready"]
         /\ resume(k, t).cur = k.cur
         /\ resume(k, t).nest = k.nest
         /\ resume(k, t).close = ListDel(k.close, t)
<1> DEFINE w == SetStatus(k, t, "wait")
           u == Unlink(w, t)
<1>1. k \in SchType /\ "wait" \in Status
  BY DEF KInv, Status
<1>2. OthersExact(w, t)
  BY <1>1, AgreementSplits, StatusOfOther
<1>3. /\ w.cur = k.cur /\ w.nest = k.nest /\ w.close = k.close
      /\ w.status = [k.status EXCEPT ![t] = "wait"]
  BY <1>1, SetStatusFields
<1> HIDE DEF w
<1>4. /\ Loose(u, t) /\ u.status = w.status /\ u.cur = w.cur /\ u.nest = w.nest
      /\ u.close = ListDel(w.close, t)
  BY <1>2, UnlinkLoosens
<1> HIDE DEF u
<1>5. resume(k, t) = add_task_to_ready_list(u, t)
  BY DEF resume, u, w
<1>6. [u.status EXCEPT ![t] = "ready"] = [k.status EXCEPT ![t] = "ready"]
  BY <1>1, <1>3, <1>4, SchFields
<1> QED
  BY <1>3, <1>4, <1>5, <1>6, AddAgrees

(***************************************************************************)
(* The timeout callback's list_del and add_task_to_ready_list keep         *)
(* agreement.                                                              *)
(***************************************************************************)
LEMMA RelinkAgrees ==
  ASSUME NEW k, KInv(k), NEW t \in Task
  PROVE  LET r == add_task_to_ready_list(Unlink(k, t), t)
         IN  /\ KInv(r)
             /\ r.status = [k.status EXCEPT ![t] = "ready"]
             /\ r.cur = k.cur /\ r.nest = k.nest
             /\ r.close = ListDel(k.close, t)
<1>1. OthersExact(k, t)
  BY AgreementSplits
<1> QED
  BY <1>1, UnlinkLoosens, AddAgrees

(***************************************************************************)
(* task_del takes the task off the ready lists and puts it on              *)
(* close_task_list.                                                        *)
(***************************************************************************)
LEMMA DeleteAgrees ==
  ASSUME NEW k, KInv(k), NEW t \in Task, k.status[t] # "close"
  PROVE  /\ KInv(delete(k, t))
         /\ delete(k, t).status = [k.status EXCEPT ![t] = "close"]
         /\ delete(k, t).cur = k.cur
         /\ delete(k, t).nest = k.nest
         /\ ToSet(delete(k, t).close) = ToSet(k.close) \cup {t}
<1> DEFINE d == IF k.status[t] \in Runnable THEN del_task_to_ready_list(k, t) ELSE k
           e == delete(k, t)
           c == ListAddTail(d.close, t)
<1>0. k \in SchType /\ t \notin ToSet(k.close)
  BY DEF KInv, CloseExact
<1>1. /\ Loose(d, t) /\ BitmapExact(d) /\ d.status = k.status
      /\ d.cur = k.cur /\ d.nest = k.nest /\ d.close = k.close
  <2>1. OthersExact(k, t)
    BY AgreementSplits
  <2>2. CASE k.status[t] \in Runnable
    <3>1. ListDel(k.close, t) = k.close
      BY <1>0, SchFields, ListDelAbsent
    <3> QED BY <2>1, <2>2, <3>1, RunnableListed, DelLoosens
  <2>3. CASE k.status[t] \notin Runnable
    <3>1. \A p \in Prio : t \notin ToSet(k.ready[p])
      BY <2>3 DEF KInv, ListsExact
    <3>2. Loose(k, t)
      BY <1>0, <2>1, <3>1, SchFields DEF Loose
    <3> QED BY <2>3, <3>2 DEF KInv
  <2> QED BY <2>2, <2>3
<1>2. d \in SchType
  BY <1>1 DEF Loose, OthersExact
<1> HIDE DEF d
<1>3. c \in Seq(Task) /\ NoDup(c) /\ ToSet(c) = ToSet(d.close) \cup {t}
  BY <1>1, <1>2, SchFields, ListAddTailProperties DEF Loose, OthersExact
<1> HIDE DEF c
<1>4. /\ e \in SchType
      /\ e.status = [d.status EXCEPT ![t] = "close"] /\ e.close = c
      /\ e.ready = d.ready /\ e.mask = d.mask /\ e.prio = d.prio
      /\ e.cur = d.cur /\ e.nest = d.nest
  BY <1>2, <1>3, SchFields DEF SchType, delete, Status, c, d
<1> HIDE DEF e
<1>5. \A v \in Task : e.status[v] = IF v = t THEN "close" ELSE k.status[v]
  BY <1>0, <1>1, <1>4, SchFields
<1>6. ListsExact(e)
  <2>1. ASSUME NEW p \in Prio
        PROVE  /\ NoDup(e.ready[p])
               /\ \A u \in Task : u \in ToSet(e.ready[p]) <=>
                                    e.status[u] \in Runnable /\ e.prio[u] = p
    <3>1. NoDup(e.ready[p]) /\ t \notin ToSet(e.ready[p])
      BY <1>1, <1>4 DEF Loose, OthersExact
    <3>2. \A u \in Task \ {t} : u \in ToSet(e.ready[p]) <=>
                                    e.status[u] \in Runnable /\ e.prio[u] = p
      BY <1>1, <1>4, <1>5 DEF Loose, OthersExact
    <3> QED BY <3>1, <3>2, <1>5 DEF Runnable
  <2> QED BY <2>1 DEF ListsExact
<1>7. BitmapExact(e)
  BY <1>1, <1>4 DEF BitmapExact
<1>8. CloseExact(e)
  BY <1>0, <1>1, <1>3, <1>4, <1>5 DEF KInv, CloseExact
<1>9. e.prio = InitPriority
  BY <1>1, <1>4 DEF Loose, OthersExact
<1> QED
  BY <1>1, <1>3, <1>4, <1>6, <1>7, <1>8, <1>9 DEF KInv, e

-----------------------------------------------------------------------------
(***************************************************************************)
(* With a bit set, switch_task picks a runnable task of the most urgent    *)
(* priority that has one.                                                  *)
(***************************************************************************)
LEMMA NextTaskProperties ==
  ASSUME NEW k, KInv(k), k.mask # {}
  PROVE  /\ NextTask(k) \in Task
         /\ k.status[NextTask(k)] \in Runnable
         /\ \A v \in Task : k.status[v] \in Runnable =>
                k.prio[NextTask(k)] <= k.prio[v]
<1> DEFINE m == Min(k.mask)
           l == k.ready[m]
<1>1. k \in SchType /\ k.mask \subseteq Prio /\ Prio \subseteq Nat
  BY SchFields DEF KInv, Prio
<1>2. m \in k.mask /\ \A n \in k.mask : m <= n
  BY <1>1, MinProperties
<1> HIDE DEF m
<1>3. m \in Prio /\ l \in Seq(Task) /\ l # <<>>
  BY <1>1, <1>2, SchFields DEF KInv, BitmapExact
<1>4. Head(l) \in ToSet(l) /\ Head(l) \in Task
  <2>1. Len(l) \in Nat \ {0} /\ Head(l) = l[1] /\ l[1] \in Task
    BY <1>3
  <2> QED BY <2>1 DEF ToSet
<1>5. NextTask(k) = Head(l)
  BY DEF NextTask, m
<1>6. k.status[Head(l)] \in Runnable /\ k.prio[Head(l)] = m
  BY <1>3, <1>4 DEF KInv, ListsExact
<1>7. \A v \in Task : k.status[v] \in Runnable => k.prio[v] \in k.mask
  BY RunnableListed
<1> QED BY <1>2, <1>4, <1>5, <1>6, <1>7

(***************************************************************************)
(* switch_task keeps agreement and leaves at most the current task in the  *)
(* running state; with the scheduler not locked, the picked task runs.     *)
(***************************************************************************)
LEMMA SwitchAgrees ==
  ASSUME NEW k, KInv(k), OneRunning(k), k.nest = 0 => k.mask # {}
  PROVE  /\ KInv(switch_task(k))
         /\ OneRunning(switch_task(k))
         /\ \A v \in Task : /\ switch_task(k).status[v] \in Runnable <=>
                                  k.status[v] \in Runnable
                            /\ k.status[v] \notin Runnable =>
                                  switch_task(k).status[v] = k.status[v]
         /\ switch_task(k).nest = k.nest
         /\ switch_task(k).mask = k.mask
         /\ switch_task(k).close = k.close
         /\ k.nest # 0 => switch_task(k) = k
         /\ k.nest = 0 => HeadRuns(switch_task(k))
<1> DEFINE to == NextTask(k)
           s == switch_task(k)
<1>0. k \in SchType
  BY DEF KInv
<1>1. CASE k.nest # 0
  <2>1. s = k
    BY <1>1 DEF switch_task
  <2> QED BY <1>1, <2>1
<1>2. CASE k.nest = 0
  <2>1. to \in Task /\ k.status[to] \in Runnable
    BY <1>2, NextTaskProperties
  <2> DEFINE f == [t \in Task |->
                     IF t = to THEN "running"
                     ELSE IF t = k.cur /\ k.status[t] = "running" THEN "ready"
                     ELSE k.status[t]]
  <2>2. s = [k EXCEPT !.cur = to, !.status = f]
    BY <1>2 DEF switch_task
  <2> HIDE DEF to, s
  <2>3. /\ f \in [Task -> Status]
        /\ \A t \in Task : f[t] =
              IF t = to THEN "running"
              ELSE IF t = k.cur /\ k.status[t] = "running" THEN "ready"
              ELSE k.status[t]
    BY <1>0, SchFields DEF Status
  <2> HIDE DEF f
  <2>10. /\ s \in SchType /\ s.cur = to /\ s.status = f
        /\ s.ready = k.ready /\ s.mask = k.mask /\ s.close = k.close
        /\ s.prio = k.prio /\ s.nest = k.nest
    BY <1>0, <2>1, <2>2, <2>3 DEF SchType
  <2>4. \A v \in Task : s.status[v] \in Runnable <=> k.status[v] \in Runnable
    BY <2>1, <2>3, <2>10 DEF Runnable
  <2>11. \A v \in Task : k.status[v] \notin Runnable => s.status[v] = k.status[v]
    BY <2>1, <2>3, <2>10 DEF Runnable
  <2>5. \A v \in ToSet(k.close) : s.status[v] = "close"
    <3>1. \A v \in ToSet(k.close) : v \in Task /\ k.status[v] = "close"
      BY <1>0, SchFields DEF KInv, CloseExact, ToSet
    <3>2. "close" \notin Runnable
      BY DEF Runnable
    <3> QED BY <3>1, <3>2, <2>11
  <2>6. KInv(s)
    BY <2>10, <2>4, <2>5, SameQueues
  <2>7. OneRunning(s)
    BY <2>3, <2>10 DEF OneRunning
  <2>8. NextTask(s) = to
    BY <2>10 DEF NextTask, to
  <2>9. HeadRuns(s)
    BY <1>2, <2>1, <2>3, <2>8, <2>10 DEF HeadRuns
  <2> QED BY <1>2, <2>4, <2>6, <2>7, <2>9, <2>10, <2>11 DEF s
<1> QED BY <1>1, <1>2

(***************************************************************************)
(* sch_start runs the first task, in agreement with the lists.             *)
(***************************************************************************)
LEMMA StartAgrees ==
  ASSUME NEW k, KInv(k), k.mask # {}, \A v \in Task : k.status[v] # "running"
  PROVE  /\ KInv(sch_start(k))
         /\ OneRunning(sch_start(k))
         /\ HeadRuns(sch_start(k))
         /\ \A v \in Task : /\ sch_start(k).status[v] \in Runnable <=>
                                  k.status[v] \in Runnable
                            /\ k.status[v] \notin Runnable =>
                                  sch_start(k).status[v] = k.status[v]
         /\ sch_start(k).nest = k.nest
         /\ sch_start(k).close = k.close
<1> DEFINE to == NextTask(k)
           s == sch_start(k)
<1>0. k \in SchType
  BY DEF KInv
<1>1. to \in Task /\ k.status[to] \in Runnable
  BY NextTaskProperties
<1> HIDE DEF to
<1>2. /\ s \in SchType /\ s.cur = to
      /\ s.ready = k.ready /\ s.mask = k.mask /\ s.close = k.close
      /\ s.prio = k.prio /\ s.nest = k.nest
      /\ \A t \in Task : s.status[t] = IF t = to THEN "running" ELSE k.status[t]
  BY <1>0, <1>1, SchFields DEF SchType, Status, sch_start, to
<1> HIDE DEF s
<1>3. \A v \in Task : s.status[v] \in Runnable <=> k.status[v] \in Runnable
  BY <1>1, <1>2 DEF Runnable
<1>9. \A v \in Task : k.status[v] \notin Runnable => s.status[v] = k.status[v]
  BY <1>1, <1>2 DEF Runnable
<1>4. \A v \in ToSet(k.close) : s.status[v] = "close"
  <2>1. \A v \in ToSet(k.close) : v \in Task /\ k.status[v] = "close"
    BY <1>0, SchFields DEF KInv, CloseExact, ToSet
  <2>2. "close" \notin Runnable
    BY DEF Runnable
  <2> QED BY <2>1, <2>2, <1>9
<1>5. KInv(s)
  BY <1>2, <1>3, <1>4, SameQueues
<1>6. OneRunning(s)
  BY <1>2 DEF OneRunning
<1>7. NextTask(s) = to
  BY <1>2 DEF NextTask, to
<1>8. HeadRuns(s)
  BY <1>1, <1>2, <1>7 DEF HeadRuns
<1> QED BY <1>2, <1>3, <1>5, <1>6, <1>8, <1>9 DEF s

(***************************************************************************)
(* task_yield_cpu keeps agreement; with the scheduler not locked, the      *)
(* first task of the most urgent list runs afterwards if the current task  *)
(* was running.                                                            *)
(***************************************************************************)
LEMMA YieldAgrees ==
  ASSUME NEW k, KInv(k), OneRunning(k), k.cur \in Task
  PROVE  LET y == task_yield_cpu(k)
         IN  /\ KInv(y)
             /\ OneRunning(y)
             /\ \A v \in Task : /\ y.status[v] \in Runnable <=> k.status[v] \in Runnable
                                /\ k.status[v] \notin Runnable =>
                                      y.status[v] = k.status[v]
             /\ y.nest = k.nest
             /\ y.close = k.close
             /\ k.nest # 0 => y.cur = k.cur
             /\ y = k \/ (k.nest = 0 => HeadRuns(y))
<1> DEFINE t == k.cur
           p == k.prio[t]
           u == Unlink(k, t)
           a == add_task_to_ready_list(u, t)
           v == [u EXCEPT !.ready[p] = ListAddTail(ListDel(k.ready[p], t), t)]
           y == task_yield_cpu(k)
<1>0. k \in SchType
  BY DEF KInv
<1>1. CASE k.status[t] # "running"
  <2>1. y = k
    BY <1>1 DEF task_yield_cpu
  <2> QED BY <2>1
<1>2. CASE k.status[t] = "running"
  <2>1. /\ p \in Prio /\ t \in ToSet(k.ready[p]) /\ p \in k.mask
        /\ t \notin ToSet(k.close)
    BY <1>2, RunnableListed DEF Runnable, KInv, CloseExact
  <2>2. y = switch_task(v)
    BY <1>2, <2>1 DEF task_yield_cpu
  <2>3. OffsetMask(t) = {p}
    BY DEF KInv, OffsetMask
  <2>4. /\ KInv(a) /\ a.status = [k.status EXCEPT ![t] = "ready"]
        /\ a.cur = k.cur /\ a.nest = k.nest /\ a.close = ListDel(k.close, t)
    BY RelinkAgrees
  <2>5. a.close = k.close
    BY <2>1, <2>4, <1>0, SchFields, ListDelAbsent
  <2>6. /\ u \in SchType /\ u.ready[p] = ListDel(k.ready[p], t)
        /\ u.mask = k.mask /\ u.status = k.status /\ u.prio = k.prio
        /\ u.cur = k.cur /\ u.nest = k.nest
    BY <2>1, AgreementSplits, UnlinkLoosens DEF Loose, OthersExact
  <2> HIDE DEF u
  <2>7. /\ a.ready = [u.ready EXCEPT ![p] = ListAddTail(ListDel(k.ready[p], t), t)]
        /\ a.mask = k.mask \cup {p} /\ a.prio = u.prio
    <3>1. u.prio[t] = p /\ u.ready[u.prio[t]] = ListDel(k.ready[p], t)
      BY <2>6
    <3> HIDE DEF p, t
    <3> QED BY <2>3, <2>6, <3>1, SchFields DEF add_task_to_ready_list, SchType
  <2>8. a \in SchType
    BY <2>4 DEF KInv
  <2> HIDE DEF a, t
  <2>9. /\ v \in SchType
        /\ v.status = u.status /\ v.ready = a.ready /\ v.mask = u.mask
        /\ v.close = u.close /\ v.prio = u.prio /\ v.cur = u.cur /\ v.nest = u.nest
    <3> DEFINE l == ListAddTail(ListDel(k.ready[p], t), t)
    <3>1. a.ready \in [Prio -> Seq(Task)]
      BY <2>8, SchFields
    <3> HIDE DEF p
    <3>2. /\ v = [u EXCEPT !.ready = [u.ready EXCEPT ![p] = l]]
          /\ [u.ready EXCEPT ![p] = l] = a.ready
      BY <2>7
    <3> HIDE DEF l, v
    <3> QED BY <2>6, <3>1, <3>2, SchFields DEF SchType
  <2>15. u.close = k.close
    <3>1. u.close = ListDel(k.close, t)
      BY AgreementSplits, UnlinkLoosens DEF u, t
    <3> QED BY <3>1, <2>1, <1>0, SchFields, ListDelAbsent
  <2>16. v.mask = a.mask
    BY <2>1, <2>6, <2>7, <2>9
  <2> HIDE DEF v, y
  <2>10. v.status = k.status
    BY <2>6, <2>9
  <2>11. KInv(v)
    <3>1. \A w \in Task : v.status[w] \in Runnable <=> a.status[w] \in Runnable
      BY <1>0, <1>2, <2>4, <2>10, SchFields DEF Runnable
    <3>2. \A w \in ToSet(a.close) : v.status[w] = "close"
      BY <2>5, <2>10 DEF KInv, CloseExact
    <3> QED BY <3>1, <3>2, <2>4, <2>5, <2>7, <2>9, <2>15, <2>16, SameQueues
  <2>12. OneRunning(v)
    BY <2>6, <2>9, <2>10 DEF OneRunning
  <2>13. v.mask # {}
    <3>1. v.status[t] \in Runnable /\ t \in Task
      BY <1>2, <2>10 DEF Runnable, t
    <3> QED BY <3>1, <2>11, RunnableListed
  <2>14. v.cur = k.cur /\ v.nest = k.nest /\ v.close = k.close
    BY <2>6, <2>9, <2>15
  <2> HIDE DEF p
  <2> QED BY <2>2, <2>10, <2>11, <2>12, <2>13, <2>14, SwitchAgrees DEF y
<1> QED BY <1>1, <1>2

-----------------------------------------------------------------------------
\* Before sch_start the scheduler is not locked and SysTick is off.
BootQuiet == Booting => sch.nest = 0 /\ tick = "idle"

\* Once the scheduler has started the idle task never blocks.
IdleRunnable == ~Booting => sch.status[Idle] \in Runnable

\* A task that is about to leave the CPU has not locked the scheduler.
NestOK ==
  \A t \in Task : sch.cur = t /\ pc[t] \in {"hung", "slept", "exit"} => sch.nest = 0

\* A timer is linked once, and its task runs, is ready or waits.
Live == Runnable \cup {"wait"}
TimersLive == NoDup(tm.list) /\ \A t \in Armed(tm) : sch.status[t] \in Live

Inv ==
  /\ TypeOK
  /\ KInv(sch) /\ OneRunning(sch)
  /\ BootQuiet /\ IdleRunnable /\ NestOK
  /\ NoRunWhileBlocked /\ HighestRuns
  /\ ReaperSafe /\ TimersLive

-----------------------------------------------------------------------------
(***************************************************************************)
(* The initial state is in agreement.                                      *)
(***************************************************************************)
LEMMA InitInv == Init => Inv
<1> SUFFICES ASSUME Init PROVE Inv
  OBVIOUS
<1> USE DEF Init
<1>1. sch \in SchType
  <2>1. <<>> \in Seq(Task)
    OBVIOUS
  <2> QED BY <2>1, SchOpsAssumption DEF SchInit, SchType, Prio, Status
<1>2. /\ sch.ready = [p \in Prio |-> <<>>] /\ sch.mask = {} /\ sch.close = <<>>
      /\ sch.status = [t \in Task |-> "none"] /\ sch.prio = InitPriority
      /\ sch.cur = NoTask /\ sch.nest = 0
  BY DEF SchInit
<1>3. tm \in TimerType /\ tm.list = <<>>
  BY DEF TimerInit, TimerType
<1>4. TypeOK
  BY <1>1, <1>3, SchedAssumption DEF TypeOK, PC
<1>5. NoDup(<<>>) /\ ToSet(<<>>) = {}
  BY DEF NoDup, ToSet
<1>6. KInv(sch)
  BY <1>1, <1>2, <1>5 DEF KInv, ListsExact, BitmapExact, CloseExact, Runnable
<1>7. OneRunning(sch)
  BY <1>2 DEF OneRunning
<1>8. \A t \in Task : sch.cur # t
  BY <1>2, SchOpsAssumption
<1>9. BootQuiet /\ IdleRunnable /\ NestOK /\ NoRunWhileBlocked /\ HighestRuns
  BY <1>2, <1>8
     DEF BootQuiet, Booting, IdleRunnable, NestOK, NoRunWhileBlocked, HighestRuns
<1>10. ReaperSafe /\ TimersLive
  BY <1>3, <1>5 DEF ReaperSafe, TimersLive, Armed
<1> QED BY <1>4, <1>6, <1>7, <1>9, <1>10 DEF Inv

(***************************************************************************)
(* The listed timers are timers of tasks that live.                        *)
(***************************************************************************)
LEMMA ArmedLive ==
  ASSUME Inv
  PROVE  /\ tm.list \in Seq(Task)
         /\ \A v \in ToSet(tm.list) : v \in Task /\ sch.status[v] \in Live
<1>1. tm.list \in Seq(Task)
  BY SchedAssumption DEF Inv, TypeOK, TimerType
<1>2. \A v \in ToSet(tm.list) : v \in Task
  BY <1>1 DEF ToSet
<1>3. \A v \in ToSet(tm.list) : sch.status[v] \in Live
  BY DEF Inv, TimersLive, Armed
<1> QED BY <1>1, <1>2, <1>3

(***************************************************************************)
(* What a handler does to the scheduler preserves Inv: it blocks nobody,   *)
(* and takes the CPU away only when the scheduler is not locked, giving it *)
(* to the first task of the most urgent list.                              *)
(***************************************************************************)
LEMMA HandlerKeepsInv ==
  ASSUME Inv, ~Booting, TypeOK', KInv(sch'), OneRunning(sch'),
         \A v \in Task : sch.status[v] \in Runnable => sch'.status[v] \in Runnable,
         sch'.nest = sch.nest,
         sch.nest # 0 => sch'.cur = sch.cur,
         sch.nest = 0 => HeadRuns(sch') \/ sch' = sch,
         victim' = victim,
         victim # NoTask => sch'.status[victim] = "close",
         ToSet(sch'.close) \subseteq ToSet(sch.close),
         TimersLive',
         \A v \in Task : pc'[v] = pc[v] \/ {pc[v], pc'[v]} \subseteq Window
  PROVE  Inv'
<1>1. sch.cur \in Task /\ sch'.cur \in Task
  <2>1. sch.cur \in Task
    BY SchFields DEF Inv, TypeOK, Booting
  <2>2. CASE HeadRuns(sch')
    BY <2>1, <2>2, NextTaskProperties DEF HeadRuns
  <2>3. CASE sch'.cur = sch.cur
    BY <2>1, <2>3
  <2> QED BY <2>2, <2>3
<1>2. BootQuiet' /\ IdleRunnable'
  BY <1>1, SchedAssumption, SchOpsAssumption DEF Inv, BootQuiet, IdleRunnable, Booting
<1>3. NestOK'
  BY <1>1 DEF Inv, NestOK, Window
<1>4. NoRunWhileBlocked'
  <2>1. CASE HeadRuns(sch')
    BY <2>1 DEF NoRunWhileBlocked, HeadRuns, Runnable
  <2>2. CASE sch'.cur = sch.cur
    BY <2>2 DEF Inv, NoRunWhileBlocked, Window
  <2> QED BY <2>1, <2>2
<1>5. HighestRuns'
  BY DEF Inv, HighestRuns, Window
<1>6. ReaperSafe'
  <2> SUFFICES ASSUME victim # NoTask
               PROVE  /\ sch'.status[victim] = "close" /\ sch'.cur # victim
                      /\ victim \notin ToSet(sch'.close)
                      /\ \A p \in Prio : victim \notin ToSet(sch'.ready[p])
    BY DEF ReaperSafe
  <2>1. victim \in Task
    BY DEF Inv, TypeOK
  <2>2. "close" \notin Runnable /\ "close" # "running"
    BY DEF Runnable
  <2>3. \A p \in Prio : victim \notin ToSet(sch'.ready[p])
    BY <2>1, <2>2 DEF KInv, ListsExact
  <2>4. victim \notin ToSet(sch'.close)
    BY DEF Inv, ReaperSafe
  <2>5. sch'.cur # victim
    <3>1. CASE HeadRuns(sch')
      BY <3>1, <2>2 DEF HeadRuns
    <3>2. CASE sch'.cur = sch.cur
      BY <3>2 DEF Inv, ReaperSafe
    <3> QED BY <3>1, <3>2
  <2> QED BY <2>3, <2>4, <2>5
<1> QED BY <1>2, <1>3, <1>4, <1>5, <1>6 DEF Inv

(***************************************************************************)
(* A wake-up moves a task at most within the window of its blocking call.  *)
(***************************************************************************)
LEMMA WokenKeeps ==
  ASSUME Inv, NEW u \in Task
  PROVE  /\ Woken(u) \in [Task -> PC]
         /\ \A v \in Task : Woken(u)[v] = pc[v] \/ {pc[v], Woken(u)[v]} \subseteq Window
BY DEF Inv, TypeOK, Woken, Window, PC

-----------------------------------------------------------------------------
(***************************************************************************)
(* The SysTick handler.                                                    *)
(***************************************************************************)
LEMMA TickCountKeepsInv == Inv /\ TickCount => Inv'
<1> SUFFICES ASSUME Inv, TickCount PROVE Inv'
  OBVIOUS
<1> USE DEF TickCount
<1>1. sch.cur \in Task
  BY SchFields DEF Inv, TypeOK, Booting
<1>2. tm' \in TimerType /\ tm'.list = tm.list
  BY RunTickKeeps DEF Inv, TypeOK
<1>3. slice' \in [Task -> Nat \ {0}]
  <2>1. slice \in [Task -> Nat \ {0}] /\ InitTick[sch.cur] \in Nat \ {0}
    BY <1>1, SchedAssumption DEF Inv, TypeOK
  <2> QED BY <1>1, <2>1
<1>4. TypeOK'
  BY <1>2, <1>3 DEF Inv, TypeOK
<1>5. TimersLive'
  BY <1>2 DEF Inv, TimersLive, Armed
<1>6. BootQuiet' /\ IdleRunnable' /\ NestOK'
  BY DEF Inv, BootQuiet, IdleRunnable, NestOK, Booting
<1>7. NoRunWhileBlocked' /\ HighestRuns' /\ ReaperSafe'
  BY DEF Inv, NoRunWhileBlocked, HighestRuns, ReaperSafe
<1> QED BY <1>4, <1>5, <1>6, <1>7 DEF Inv

(***************************************************************************)
(* The end of a time slice: task_yield_cpu blocks nobody.                  *)
(***************************************************************************)
LEMMA TickYieldKeepsInv == Inv /\ TickYield => Inv'
<1> SUFFICES ASSUME Inv, TickYield PROVE Inv'
  OBVIOUS
<1> USE DEF TickYield
<1>1. ~Booting /\ sch.cur \in Task
  BY SchFields DEF Inv, TypeOK, BootQuiet, Booting
<1>2. /\ KInv(sch') /\ OneRunning(sch')
      /\ \A v \in Task : /\ sch'.status[v] \in Runnable <=> sch.status[v] \in Runnable
                         /\ sch.status[v] \notin Runnable =>
                               sch'.status[v] = sch.status[v]
      /\ sch'.nest = sch.nest /\ sch'.close = sch.close
      /\ sch.nest # 0 => sch'.cur = sch.cur
      /\ sch' = sch \/ (sch.nest = 0 => HeadRuns(sch'))
  BY <1>1, YieldAgrees DEF Inv
<1>3. TypeOK'
  BY <1>2 DEF Inv, TypeOK, KInv
<1>4. victim # NoTask => sch'.status[victim] = "close"
  BY <1>2 DEF Inv, TypeOK, ReaperSafe, Runnable
<1>5. TimersLive'
  <2>1. \A v \in ToSet(tm.list) : v \in Task /\ sch.status[v] \in Live
    BY ArmedLive
  <2> QED BY <2>1, <1>2 DEF Inv, TimersLive, Armed, Live
<1> QED BY <1>1, <1>2, <1>3, <1>4, <1>5, HandlerKeepsInv

(***************************************************************************)
(* Putting one task back on the ready list and calling switch_task blocks  *)
(* nobody and wakes nobody else.                                           *)
(***************************************************************************)
LEMMA WakeMovesOne ==
  ASSUME Inv, ~Booting, NEW t \in Task, NEW r,
         KInv(r), r.status = [sch.status EXCEPT ![t] = "ready"],
         r.cur = sch.cur, r.nest = sch.nest
  PROVE  /\ KInv(switch_task(r)) /\ OneRunning(switch_task(r))
         /\ switch_task(r).nest = r.nest /\ switch_task(r).close = r.close
         /\ r.nest # 0 => switch_task(r) = r
         /\ r.nest = 0 => HeadRuns(switch_task(r))
         /\ switch_task(r).status[t] \in Runnable
         /\ \A v \in Task : sch.status[v] \in Runnable => switch_task(r).status[v] \in Runnable
         /\ \A v \in Task \ {t} : sch.status[v] \notin Runnable =>
                                    switch_task(r).status[v] = sch.status[v]
<1>1. sch.cur \in Task /\ sch \in SchType /\ r \in SchType
  BY SchFields DEF Inv, TypeOK, Booting, KInv
<1>2. \A v \in Task : r.status[v] = IF v = t THEN "ready" ELSE sch.status[v]
  BY <1>1, SchFields
<1>3. OneRunning(r)
  BY <1>2 DEF OneRunning, Inv
<1>4. r.mask # {}
  <2>1. r.status[Idle] \in Runnable
    BY <1>2, SchedAssumption DEF Inv, IdleRunnable, Runnable
  <2> QED BY <2>1, SchedAssumption, RunnableListed
<1> DEFINE s == switch_task(r)
<1>5. /\ KInv(s) /\ OneRunning(s)
      /\ \A v \in Task : /\ s.status[v] \in Runnable <=> r.status[v] \in Runnable
                         /\ r.status[v] \notin Runnable => s.status[v] = r.status[v]
      /\ s.nest = r.nest /\ s.close = r.close
      /\ r.nest # 0 => s = r
      /\ r.nest = 0 => HeadRuns(s)
  BY <1>3, <1>4, SwitchAgrees
<1> HIDE DEF s
<1>6. \A v \in Task \ {t} : sch.status[v] \notin Runnable => s.status[v] = sch.status[v]
  BY <1>2, <1>5
<1>7. \A v \in Task : sch.status[v] \in Runnable \/ v = t => s.status[v] \in Runnable
  BY <1>2, <1>5 DEF Runnable
<1> QED BY <1>5, <1>6, <1>7 DEF s

(***************************************************************************)
(* A handler that puts a task back on the ready list, switches and stops   *)
(* the task's timer: the timeout callback and the wake-up by a device.     *)
(***************************************************************************)
LEMMA WakeKeepsInv ==
  ASSUME Inv, ~Booting, NEW t \in Task, NEW r,
         KInv(r), r.status = [sch.status EXCEPT ![t] = "ready"],
         r.cur = sch.cur, r.nest = sch.nest, r.close = ListDel(sch.close, t),
         sch.status[t] # "close",
         sch' = switch_task(r), tm' = timer_stop(tm, t),
         flag' \in [Task -> BOOLEAN], slice' = slice, victim' = victim,
         pc' \in [Task -> PC],
         \A v \in Task : pc'[v] = pc[v] \/ {pc[v], pc'[v]} \subseteq Window,
         tick' \in {"idle", "yield", "timers"}
  PROVE  Inv'
<1>1. sch \in SchType /\ KInv(sch)
  BY DEF Inv, TypeOK
<1>5. /\ KInv(sch') /\ OneRunning(sch')
      /\ sch'.nest = r.nest /\ sch'.close = r.close
      /\ r.nest # 0 => sch' = r
      /\ r.nest = 0 => HeadRuns(sch')
  BY WakeMovesOne
<1>8. \A v \in Task \ {t} : sch.status[v] \notin Runnable => sch'.status[v] = sch.status[v]
  BY WakeMovesOne
<1>9. \A v \in Task : sch.status[v] \in Runnable => sch'.status[v] \in Runnable
  BY WakeMovesOne
<1>6. /\ tm' \in TimerType /\ NoDup(tm'.list)
      /\ ToSet(tm'.list) = ToSet(tm.list) \ {t}
  BY SchedAssumption, TimerStopKeeps DEF Inv, TypeOK, TimersLive
<1>7. TypeOK'
  BY <1>5, <1>6 DEF Inv, TypeOK, KInv
<1>10. victim # NoTask => sch'.status[victim] = "close"
  BY <1>8 DEF Inv, TypeOK, ReaperSafe, Runnable
<1>11. TimersLive'
  <2>1. \A v \in ToSet(tm.list) : v \in Task /\ sch.status[v] \in Live
    BY ArmedLive
  <2> QED BY <2>1, <1>6, <1>8, <1>9 DEF TimersLive, Armed, Live
<1>12. ToSet(sch'.close) \subseteq ToSet(sch.close)
  <2>1. sch.close \in Seq(Task) /\ NoDup(sch.close)
    BY <1>1, SchFields DEF Inv, KInv, CloseExact
  <2> QED BY <2>1, <1>5, ListDelProperties
<1> QED
  BY <1>5, <1>6, <1>7, <1>9, <1>10, <1>11, <1>12, HandlerKeepsInv

(***************************************************************************)
(* timer_check: the callback of the first timer wakes a task that lives.   *)
(***************************************************************************)
LEMMA TickTimersKeepsInv == Inv /\ TickTimers => Inv'
<1> SUFFICES ASSUME Inv, TickTimers PROVE Inv'
  OBVIOUS
<1> USE DEF TickTimers
<1>1. ~Booting
  BY DEF Inv, BootQuiet
<1>2. CASE HeadIsDue(tm)
  <2> DEFINE t == Head(tm.list)
             r == add_task_to_ready_list(Unlink(sch, t), t)
  <2>1. t \in Task /\ t \in ToSet(tm.list)
    <3>1. tm.list \in Seq(Task) /\ tm.list # <<>>
      BY <1>2, SchedAssumption DEF Inv, TypeOK, TimerType, HeadIsDue
    <3>2. Len(tm.list) \in Nat \ {0} /\ t = tm.list[1] /\ tm.list[1] \in Task
      BY <3>1
    <3> QED BY <3>1, <3>2 DEF ToSet
  <2>2. sch.status[t] # "close"
    BY <2>1 DEF Inv, TimersLive, Armed, Live, Runnable
  <2>3. /\ sch' = switch_task(r) /\ tm' = timer_stop(tm, t)
        /\ flag' = [flag EXCEPT ![t] = TRUE]
        /\ slice' = slice /\ pc' = pc /\ victim' = victim /\ tick' = "idle"
    BY <1>2
  <2>4. flag' \in [Task -> BOOLEAN]
    BY <2>3 DEF Inv, TypeOK
  <2> HIDE DEF t
  <2>5. /\ KInv(r) /\ r.status = [sch.status EXCEPT ![t] = "ready"]
        /\ r.cur = sch.cur /\ r.nest = sch.nest /\ r.close = ListDel(sch.close, t)
    BY <2>1, RelinkAgrees DEF Inv
  <2> HIDE DEF r
  <2> HIDE DEF TickTimers
  <2>6. pc' \in [Task -> PC] /\ \A v \in Task : pc'[v] = pc[v]
    BY <2>3 DEF Inv, TypeOK
  <2> QED BY <1>1, <2>1, <2>2, <2>3, <2>4, <2>5, <2>6, WakeKeepsInv
<1>3. CASE ~HeadIsDue(tm)
  <2>1. UNCHANGED <<tm, flag, sch, slice, pc, victim>> /\ tick' = "idle"
    BY <1>3
  <2> HIDE DEF TickTimers
  <2>2. TypeOK' /\ TimersLive'
    BY <2>1 DEF Inv, TypeOK, TimersLive
  <2>3. BootQuiet' /\ IdleRunnable' /\ NestOK'
    BY <2>1 DEF Inv, BootQuiet, IdleRunnable, NestOK, Booting
  <2>4. NoRunWhileBlocked' /\ HighestRuns' /\ ReaperSafe'
    BY <2>1 DEF Inv, NoRunWhileBlocked, HighestRuns, ReaperSafe
  <2> QED BY <2>1, <2>2, <2>3, <2>4 DEF Inv
<1> QED BY <1>2, <1>3

(***************************************************************************)
(* A device handler wakes a task.                                          *)
(***************************************************************************)
LEMMA IsrWakeKeepsInv ==
  ASSUME Inv, NEW t \in Task, IsrWake(t) PROVE Inv'
<1> DEFINE r == resume(sch, t)
<1>1. /\ KInv(r) /\ r.status = [sch.status EXCEPT ![t] = "ready"]
      /\ r.cur = sch.cur /\ r.nest = sch.nest /\ r.close = ListDel(sch.close, t)
  BY ResumeAgrees DEF Inv
<1>2. ~Booting /\ sch.status[t] # "close"
  BY DEF IsrWake, Resumable, Runnable
<1>3. /\ sch' = switch_task(r) /\ tm' = timer_stop(tm, t)
      /\ flag' \in [Task -> BOOLEAN] /\ slice' = slice /\ pc' = Woken(t)
      /\ victim' = victim /\ tick' \in {"idle", "yield", "timers"}
  BY DEF IsrWake, Inv, TypeOK
<1>4. /\ pc' \in [Task -> PC]
      /\ \A v \in Task : pc'[v] = pc[v] \/ {pc[v], pc'[v]} \subseteq Window
  BY <1>3, WokenKeeps
<1> HIDE DEF r
<1> QED BY <1>1, <1>2, <1>3, <1>4, WakeKeepsInv

(***************************************************************************)
(* A device handler calls switch_task.                                     *)
(***************************************************************************)
LEMMA IsrSwitchKeepsInv == Inv /\ IsrSwitch => Inv'
<1> SUFFICES ASSUME Inv, IsrSwitch PROVE Inv'
  OBVIOUS
<1>1. ~Booting /\ sch.mask # {}
  BY SchedAssumption, RunnableListed DEF IsrSwitch, Inv, IdleRunnable
<1>2. /\ KInv(sch') /\ OneRunning(sch')
      /\ \A v \in Task : /\ sch'.status[v] \in Runnable <=> sch.status[v] \in Runnable
                         /\ sch.status[v] \notin Runnable => sch'.status[v] = sch.status[v]
      /\ sch'.nest = sch.nest /\ sch'.close = sch.close
      /\ sch.nest # 0 => sch' = sch
      /\ sch.nest = 0 => HeadRuns(sch')
  BY <1>1, SwitchAgrees DEF Inv, IsrSwitch
<1>3. UNCHANGED <<tm, slice, flag, pc, tick, victim>>
  BY DEF IsrSwitch
<1>4. TypeOK'
  BY <1>2, <1>3 DEF Inv, TypeOK, KInv
<1>5. victim # NoTask => sch'.status[victim] = "close"
  BY <1>2 DEF Inv, TypeOK, ReaperSafe, Runnable
<1>6. TimersLive'
  BY <1>2, <1>3, ArmedLive DEF Inv, TimersLive, Armed, Live
<1> QED BY <1>1, <1>2, <1>3, <1>4, <1>5, <1>6, HandlerKeepsInv

-----------------------------------------------------------------------------
(***************************************************************************)
(* Creating a task touches a struct no list knows of.                      *)
(***************************************************************************)
LEMMA TaskCreateKeepsInv ==
  ASSUME Inv, NEW t \in Task, TaskCreate(t) PROVE Inv'
<1> USE DEF TaskCreate
<1>1. sch \in SchType /\ sch.prio = InitPriority /\ sch.status[t] = "none"
  BY DEF Inv, KInv
<1>2. [sch.prio EXCEPT ![t] = InitPriority[t]] = sch.prio
  BY <1>1, SchFields
<1>3. /\ sch' \in SchType /\ sch'.status = [sch.status EXCEPT ![t] = "suspend"]
      /\ sch'.ready = sch.ready /\ sch'.mask = sch.mask /\ sch'.close = sch.close
      /\ sch'.prio = sch.prio /\ sch'.cur = sch.cur /\ sch'.nest = sch.nest
  BY <1>1, <1>2, SchFields DEF SchType, Status
<1>4. \A v \in Task : sch'.status[v] = IF v = t THEN "suspend" ELSE sch.status[v]
  BY <1>1, <1>3, SchFields
<1>5. \A v \in ToSet(sch.close) : sch'.status[v] = "close"
  <2>1. \A v \in ToSet(sch.close) : v \in Task
    BY <1>1, SchFields DEF ToSet
  <2>2. \A v \in ToSet(sch.close) : sch.status[v] = "close"
    BY DEF Inv, KInv, CloseExact
  <2> QED BY <2>1, <2>2, <1>1, <1>4
<1>6. KInv(sch')
  <2>1. \A v \in Task : sch'.status[v] \in Runnable <=> sch.status[v] \in Runnable
    BY <1>1, <1>4 DEF Runnable
  <2> QED BY <2>1, <1>3, <1>5, SameQueues DEF Inv
<1>7. OneRunning(sch')
  BY <1>3, <1>4 DEF Inv, OneRunning
<1>8. TypeOK'
  <2>1. slice' \in [Task -> Nat \ {0}]
    BY SchedAssumption DEF Inv, TypeOK
  <2> QED BY <1>3, <2>1 DEF Inv, TypeOK, PC
<1>9. sch.cur # t
  BY <1>1, SchOpsAssumption
     DEF Inv, NoRunWhileBlocked, InCode, InApp, InTask, Booting, Runnable
<1>10. pc' = [pc EXCEPT ![t] = "user"] /\ pc \in [Task -> PC]
  BY DEF Inv, TypeOK
<1>11. BootQuiet' /\ IdleRunnable'
  BY <1>1, <1>3, <1>4, SchedAssumption
     DEF Inv, BootQuiet, IdleRunnable, Booting, Runnable
<1>12. NestOK'
  BY <1>3, <1>9, <1>10 DEF Inv, NestOK
<1>13. NoRunWhileBlocked'
  BY <1>3, <1>4, <1>9, <1>10 DEF Inv, NoRunWhileBlocked
<1>14. HighestRuns'
  BY <1>1, <1>3, <1>4, <1>9, <1>10 DEF Inv, HighestRuns, HeadRuns, NextTask
<1>15. ReaperSafe'
  BY <1>1, <1>3, <1>4 DEF Inv, TypeOK, ReaperSafe
<1>16. TimersLive'
  BY <1>1, <1>4, ArmedLive DEF Inv, TimersLive, Armed, Live, Runnable
<1> QED BY <1>6, <1>7, <1>8, <1>11, <1>12, <1>13, <1>14, <1>15, <1>16 DEF Inv

(***************************************************************************)
(* A new task joins the ready list; unless still booting, the caller is    *)
(* about to call switch_task.                                              *)
(***************************************************************************)
LEMMA TaskReadyKeepsInv ==
  ASSUME Inv, NEW t \in Task, TaskReady(t) PROVE Inv'
<1> USE DEF TaskReady
<1>1. sch \in SchType /\ sch.status[t] = "suspend"
  BY DEF Inv, KInv
<1>2. Loose(sch, t)
  <2>1. OthersExact(sch, t)
    BY AgreementSplits DEF Inv
  <2>2. \A p \in Prio : t \notin ToSet(sch.ready[p])
    BY <1>1 DEF Inv, KInv, ListsExact, Runnable
  <2>3. t \notin ToSet(sch.close)
    BY <1>1 DEF Inv, KInv, CloseExact
  <2> QED BY <1>1, <2>1, <2>2, <2>3, SchFields DEF Loose
<1>3. /\ KInv(sch') /\ sch'.status = [sch.status EXCEPT ![t] = "ready"]
      /\ sch'.cur = sch.cur /\ sch'.nest = sch.nest /\ sch'.close = sch.close
  BY <1>2, AddAgrees
<1>4. \A v \in Task : sch'.status[v] = IF v = t THEN "ready" ELSE sch.status[v]
  BY <1>1, <1>3, SchFields
<1>5. OneRunning(sch')
  BY <1>3, <1>4 DEF Inv, OneRunning
<1>6. TypeOK'
  BY <1>3, SchFields DEF Inv, TypeOK, PC, KInv, Booting
<1>7. BootQuiet' /\ IdleRunnable'
  BY <1>3, <1>4, SchedAssumption DEF Inv, BootQuiet, IdleRunnable, Booting, Runnable
<1>8. \A v \in Task : sch'.cur = v => pc'[v] = "switch" /\ pc[v] = "user"
  BY <1>1, <1>3, SchOpsAssumption, SchFields
     DEF Inv, TypeOK, InCode, InApp, InTask, Booting
<1>9. NestOK' /\ HighestRuns'
  BY <1>8 DEF NestOK, HighestRuns, Window
<1>10. NoRunWhileBlocked'
  BY <1>3, <1>4, <1>8 DEF Inv, NoRunWhileBlocked, Runnable
<1>11. ReaperSafe'
  <2> SUFFICES ASSUME victim # NoTask
               PROVE  /\ sch'.status[victim] = "close" /\ sch'.cur # victim
                      /\ victim \notin ToSet(sch'.close)
                      /\ \A p \in Prio : victim \notin ToSet(sch'.ready[p])
    BY DEF ReaperSafe
  <2>1. victim \in Task /\ sch.status[victim] = "close"
    BY DEF Inv, TypeOK, ReaperSafe
  <2>2. sch'.status[victim] = "close"
    BY <1>1, <1>4, <2>1
  <2>3. \A p \in Prio : victim \notin ToSet(sch'.ready[p])
    BY <1>3, <2>1, <2>2 DEF KInv, ListsExact, Runnable
  <2> QED BY <1>3, <2>2, <2>3 DEF Inv, ReaperSafe
<1>12. TimersLive'
  BY <1>1, <1>4, ArmedLive DEF Inv, TimersLive, Armed, Live, Runnable
<1> QED BY <1>3, <1>5, <1>6, <1>7, <1>9, <1>10, <1>11, <1>12 DEF Inv

(***************************************************************************)
(* sch_start.                                                              *)
(***************************************************************************)
LEMMA StartKeepsInv == Inv /\ Start => Inv'
<1> SUFFICES ASSUME Inv, Start PROVE Inv'
  OBVIOUS
<1> USE DEF Start
<1>1. sch \in SchType /\ Idle \in Task /\ sch.status[Idle] \in Runnable
  BY SchedAssumption DEF Inv, KInv, Runnable
<1>2. sch.mask # {}
  BY <1>1, RunnableListed DEF Inv
<1>3. \A v \in Task : sch.status[v] # "running"
  BY SchOpsAssumption DEF Inv, OneRunning, Booting
<1>4. /\ KInv(sch') /\ OneRunning(sch') /\ HeadRuns(sch')
      /\ \A v \in Task : /\ sch'.status[v] \in Runnable <=> sch.status[v] \in Runnable
                         /\ sch.status[v] \notin Runnable =>
                               sch'.status[v] = sch.status[v]
      /\ sch'.nest = sch.nest /\ sch'.close = sch.close
  BY <1>2, <1>3, StartAgrees DEF Inv
<1>5. TypeOK'
  BY <1>4 DEF Inv, TypeOK, KInv
<1>6. sch'.nest = 0 /\ tick' = "idle"
  BY <1>4 DEF Inv, BootQuiet
<1>7. BootQuiet' /\ IdleRunnable' /\ NestOK'
  BY <1>1, <1>4, <1>6 DEF BootQuiet, IdleRunnable, NestOK
<1>8. NoRunWhileBlocked' /\ HighestRuns'
  BY <1>4 DEF NoRunWhileBlocked, HighestRuns, HeadRuns, Runnable
<1>9. ReaperSafe'
  <2> SUFFICES ASSUME victim # NoTask
               PROVE  /\ sch'.status[victim] = "close" /\ sch'.cur # victim
                      /\ victim \notin ToSet(sch'.close)
                      /\ \A p \in Prio : victim \notin ToSet(sch'.ready[p])
    BY DEF ReaperSafe
  <2>1. victim \in Task /\ sch.status[victim] = "close"
    BY DEF Inv, TypeOK, ReaperSafe
  <2>2. sch'.status[victim] = "close"
    BY <1>4, <2>1 DEF Runnable
  <2>3. \A p \in Prio : victim \notin ToSet(sch'.ready[p])
    BY <1>4, <2>1, <2>2 DEF KInv, ListsExact, Runnable
  <2> QED BY <1>4, <2>2, <2>3 DEF Inv, ReaperSafe, HeadRuns
<1>10. TimersLive'
  BY <1>4, ArmedLive DEF Inv, TimersLive, Armed, Live
<1> QED BY <1>4, <1>5, <1>7, <1>8, <1>9, <1>10 DEF Inv

-----------------------------------------------------------------------------
(***************************************************************************)
(* A task takes itself off the ready list and is about to call             *)
(* switch_task: task_hang, task_sleep and task_exit.                       *)
(***************************************************************************)
LEMMA LeaveKeepsInv ==
  ASSUME Inv, NEW t \in Task, AtHang(t), sch.nest = 0,
         NEW s \in {"wait", "close"}, NEW q \in {"hung", "slept", "exit"},
         KInv(sch'), sch'.status = [sch.status EXCEPT ![t] = s],
         sch'.cur = sch.cur, sch'.nest = sch.nest,
         ToSet(sch'.close) \subseteq ToSet(sch.close) \cup {t},
         tm' \in TimerType, NoDup(tm'.list),
         ToSet(tm'.list) \subseteq ToSet(tm.list) \cup {t},
         s = "close" => t \notin ToSet(tm'.list),
         pc' = [pc EXCEPT ![t] = q],
         UNCHANGED <<slice, flag, tick, victim>>
  PROVE  Inv'
<1>1. sch \in SchType /\ sch.cur = t /\ t # Idle /\ tick = "idle"
  BY DEF Inv, KInv, AtHang, InTask
<1>2. \A v \in Task : sch'.status[v] = IF v = t THEN s ELSE sch.status[v]
  BY <1>1, SchFields
<1>3. s \notin Runnable
  BY DEF Runnable
<1>4. OneRunning(sch')
  BY <1>2, <1>3 DEF Inv, OneRunning, Runnable
<1>5. TypeOK'
  BY DEF Inv, TypeOK, PC, KInv
<1>6. BootQuiet' /\ IdleRunnable' /\ NestOK'
  BY <1>1, <1>2, SchedAssumption DEF Inv, BootQuiet, IdleRunnable, Booting, NestOK
<1>7. pc'[t] = q
  BY DEF Inv, TypeOK
<1>8. NoRunWhileBlocked' /\ HighestRuns'
  BY <1>1, <1>7 DEF NoRunWhileBlocked, HighestRuns, Window
<1>9. ReaperSafe'
  <2> SUFFICES ASSUME victim # NoTask
               PROVE  /\ sch'.status[victim] = "close" /\ sch'.cur # victim
                      /\ victim \notin ToSet(sch'.close)
                      /\ \A p \in Prio : victim \notin ToSet(sch'.ready[p])
    BY DEF ReaperSafe
  <2>1. /\ victim \in Task /\ sch.status[victim] = "close" /\ sch.cur # victim
        /\ victim \notin ToSet(sch.close)
    BY DEF Inv, TypeOK, ReaperSafe
  <2>2. sch'.status[victim] = "close"
    BY <1>1, <1>2, <2>1
  <2>3. \A p \in Prio : victim \notin ToSet(sch'.ready[p])
    BY <2>1, <2>2 DEF KInv, ListsExact, Runnable
  <2> QED BY <1>1, <2>1, <2>2, <2>3
<1>10. TimersLive'
  BY <1>2, ArmedLive DEF TimersLive, Armed, Live, Runnable
<1> QED BY <1>4, <1>5, <1>6, <1>8, <1>9, <1>10 DEF Inv

(***************************************************************************)
(* A task that executes its own code, or is about to hang, is runnable.    *)
(***************************************************************************)
LEMMA AtHangRunnable ==
  ASSUME Inv, NEW t \in Task, AtHang(t)
  PROVE  sch.status[t] \in Runnable /\ sch.cur = t
BY DEF Inv, NoRunWhileBlocked, AtHang, InTask

LEMMA AppRunnable ==
  ASSUME Inv, NEW t \in Task, InApp(t)
  PROVE  AtHang(t) /\ sch.status[t] \in Runnable /\ sch.cur = t /\ pc[t] = "user"
BY DEF Inv, NoRunWhileBlocked, InApp, AtHang, InTask

(***************************************************************************)
(* task_hang on oneself, in sem_get, mutex_lock and msg_q_recv.            *)
(***************************************************************************)
LEMMA TaskHangKeepsInv ==
  ASSUME Inv, NEW t \in Task, TaskHang(t) PROVE Inv'
<1>1. AtHang(t) /\ sch.nest = 0
  BY DEF TaskHang
<1>2. sch.status[t] \in Runnable /\ sch.close \in Seq(Task) /\ NoDup(sch.close)
  BY <1>1, AtHangRunnable, SchFields DEF Inv, KInv, CloseExact
<1>3. /\ KInv(sch') /\ sch'.status = [sch.status EXCEPT ![t] = "wait"]
      /\ sch'.cur = sch.cur /\ sch'.nest = sch.nest
      /\ sch'.close = ListDel(sch.close, t)
  BY <1>2, HangAgrees DEF TaskHang, Inv
<1>4. ToSet(sch'.close) \subseteq ToSet(sch.close) \cup {t}
  BY <1>2, <1>3, ListDelProperties
<1>5. /\ tm' \in TimerType /\ NoDup(tm'.list)
      /\ ToSet(tm'.list) \subseteq ToSet(tm.list) \cup {t}
  BY SchedAssumption, TimerStopKeeps DEF TaskHang, Inv, TypeOK, TimersLive
<1>6. pc' = [pc EXCEPT ![t] = "hung"] /\ UNCHANGED <<slice, flag, tick, victim>>
  BY DEF TaskHang
<1> QED BY <1>1, <1>3, <1>4, <1>5, <1>6, LeaveKeepsInv

(***************************************************************************)
(* task_sleep also links the timer of the task that waits.                 *)
(***************************************************************************)
LEMMA TaskSleepKeepsInv ==
  ASSUME Inv, NEW t \in Task, NEW n \in SleepTicks, TaskSleep(t, n) PROVE Inv'
<1>1. InApp(t) /\ sch.nest = 0
  BY DEF TaskSleep
<1>2. sch.status[t] \in Runnable /\ sch.close \in Seq(Task) /\ NoDup(sch.close)
  BY <1>1, AppRunnable, SchFields DEF Inv, KInv, CloseExact
<1>3. /\ KInv(sch') /\ sch'.status = [sch.status EXCEPT ![t] = "wait"]
      /\ sch'.cur = sch.cur /\ sch'.nest = sch.nest
      /\ sch'.close = ListDel(sch.close, t)
  BY <1>2, HangAgrees DEF TaskSleep, Inv
<1>4. ToSet(sch'.close) \subseteq ToSet(sch.close) \cup {t}
  BY <1>2, <1>3, ListDelProperties
<1>5. /\ tm' \in TimerType /\ NoDup(tm'.list)
      /\ ToSet(tm'.list) \subseteq ToSet(tm.list) \cup {t}
  <2> DEFINE m == timer_stop(tm, t)
  <2>1. m \in TimerType /\ NoDup(m.list) /\ ToSet(m.list) = ToSet(tm.list) \ {t}
    BY SchedAssumption, TimerStopKeeps DEF Inv, TypeOK, TimersLive
  <2>2. tm' = timer_start(m, t, n)
    BY DEF TaskSleep
  <2>3. n \in Nat /\ t \in Timer
    BY SchedAssumption
  <2> HIDE DEF m
  <2>4. /\ timer_start(m, t, n) \in TimerType /\ NoDup(timer_start(m, t, n).list)
        /\ ToSet(timer_start(m, t, n).list) = ToSet(m.list) \cup {t}
    BY <2>1, <2>3, TimerStartKeeps
  <2>5. ToSet(m.list) \cup {t} \subseteq ToSet(tm.list) \cup {t}
    BY <2>1
  <2> QED BY <2>2, <2>4, <2>5
<1>6. pc' = [pc EXCEPT ![t] = "slept"] /\ UNCHANGED <<slice, flag, tick, victim>>
  BY DEF TaskSleep
<1> QED BY <1>1, <1>3, <1>4, <1>5, <1>6, AppRunnable, LeaveKeepsInv

(***************************************************************************)
(* task_exit also takes the timer off its list.                            *)
(***************************************************************************)
LEMMA TaskExitKeepsInv ==
  ASSUME Inv, NEW t \in Task, TaskExit(t) PROVE Inv'
<1>1. InApp(t) /\ sch.nest = 0
  BY DEF TaskExit
<1>2. sch.status[t] # "close"
  BY <1>1, AppRunnable DEF Runnable
<1>3. /\ KInv(sch') /\ sch'.status = [sch.status EXCEPT ![t] = "close"]
      /\ sch'.cur = sch.cur /\ sch'.nest = sch.nest
      /\ ToSet(sch'.close) = ToSet(sch.close) \cup {t}
  BY <1>2, DeleteAgrees DEF TaskExit, Inv
<1>4. /\ tm' \in TimerType /\ NoDup(tm'.list)
      /\ ToSet(tm'.list) = ToSet(tm.list) \ {t}
  BY SchedAssumption, TimerStopKeeps DEF TaskExit, Inv, TypeOK, TimersLive
<1>5. pc' = [pc EXCEPT ![t] = "exit"] /\ UNCHANGED <<slice, flag, tick, victim>>
  BY DEF TaskExit
<1> QED BY <1>1, <1>3, <1>4, <1>5, AppRunnable, LeaveKeepsInv

(***************************************************************************)
(* A task resumes another one, which must not be closed, and is about to   *)
(* call switch_task.                                                       *)
(***************************************************************************)
LEMMA ResumeKeepsInv ==
  ASSUME Inv, NEW t \in Task, NEW u \in Task, InApp(t), sch.status[u] # "close",
         sch' = resume(sch, u), tm' = timer_stop(tm, u),
         pc' = [Woken(u) EXCEPT ![t] = "switch"], UNCHANGED <<slice, flag, tick, victim>>
  PROVE  Inv'
<1>1. sch \in SchType /\ sch.cur = t /\ sch.status[t] \in Runnable
  BY AppRunnable DEF Inv, KInv
<1>2. /\ KInv(sch') /\ sch'.status = [sch.status EXCEPT ![u] = "ready"]
      /\ sch'.cur = sch.cur /\ sch'.nest = sch.nest
      /\ sch'.close = ListDel(sch.close, u)
  BY ResumeAgrees DEF Inv
<1>3. \A v \in Task : sch'.status[v] = IF v = u THEN "ready" ELSE sch.status[v]
  BY <1>1, <1>2, SchFields
<1>4. OneRunning(sch')
  BY <1>2, <1>3 DEF Inv, OneRunning
<1>5. /\ tm' \in TimerType /\ NoDup(tm'.list)
      /\ ToSet(tm'.list) = ToSet(tm.list) \ {u}
  BY SchedAssumption, TimerStopKeeps DEF Inv, TypeOK, TimersLive
<1>7. TypeOK' /\ Woken(u) \in [Task -> PC]
  BY <1>2, <1>5, WokenKeeps DEF Inv, TypeOK, PC, KInv
<1>8. BootQuiet' /\ IdleRunnable'
  BY <1>2, <1>3, SchedAssumption
     DEF Inv, BootQuiet, IdleRunnable, Booting, Runnable
<1>9. pc'[t] = "switch"
  BY <1>7
<1>10. NestOK' /\ HighestRuns'
  BY <1>1, <1>2, <1>9 DEF NestOK, HighestRuns, Window
<1>11. NoRunWhileBlocked'
  BY <1>1, <1>2, <1>3 DEF NoRunWhileBlocked, Runnable
<1>12. ReaperSafe'
  <2> SUFFICES ASSUME victim # NoTask
               PROVE  /\ sch'.status[victim] = "close" /\ sch'.cur # victim
                      /\ victim \notin ToSet(sch'.close)
                      /\ \A p \in Prio : victim \notin ToSet(sch'.ready[p])
    BY DEF ReaperSafe
  <2>1. /\ victim \in Task /\ sch.status[victim] = "close" /\ sch.cur # victim
        /\ victim \notin ToSet(sch.close)
    BY DEF Inv, TypeOK, ReaperSafe
  <2>2. sch'.status[victim] = "close"
    BY <1>1, <1>3, <2>1
  <2>3. \A p \in Prio : victim \notin ToSet(sch'.ready[p])
    BY <1>2, <2>1, <2>2 DEF KInv, ListsExact, Runnable
  <2>4. ToSet(sch'.close) \subseteq ToSet(sch.close)
    <3>1. sch.close \in Seq(Task) /\ NoDup(sch.close)
      BY <1>1, SchFields DEF Inv, KInv, CloseExact
    <3> QED BY <3>1, <1>2, ListDelProperties
  <2> QED BY <1>2, <2>1, <2>2, <2>3, <2>4
<1>13. TimersLive'
  BY <1>3, <1>5, ArmedLive DEF TimersLive, Armed, Live, Runnable
<1> QED BY <1>2, <1>4, <1>7, <1>8, <1>10, <1>11, <1>12, <1>13 DEF Inv

LEMMA TaskWakeKeepsInv ==
  ASSUME Inv, NEW t \in Task, NEW u \in Task, TaskWake(t, u) PROVE Inv'
<1>1. InApp(t) /\ sch.status[u] # "close"
  BY DEF TaskWake, Resumable, Runnable
<1> QED BY <1>1, ResumeKeepsInv DEF TaskWake

(***************************************************************************)
(* sch_lock, sch_unlock, going on a wait list and the end of task_sleep    *)
(* move no task.                                                           *)
(***************************************************************************)
LEMMA SameTasksKeepInv ==
  ASSUME Inv, NEW t \in Task, InTask(t), pc[t] \in {"user", "clear"},
         NEW n \in Nat, sch' = [sch EXCEPT !.nest = n],
         NEW q \in {"user", "switch", "enlist"}, pc' = [pc EXCEPT ![t] = q],
         q # "switch" /\ n = 0 => sch.nest = 0,
         flag' \in [Task -> BOOLEAN], UNCHANGED <<tm, slice, tick, victim>>
  PROVE  Inv'
<1>1. sch \in SchType /\ sch.cur = t /\ tick = "idle"
  BY DEF Inv, KInv, InTask
<1>2. /\ sch' \in SchType /\ sch'.status = sch.status
      /\ sch'.ready = sch.ready /\ sch'.mask = sch.mask /\ sch'.close = sch.close
      /\ sch'.prio = sch.prio /\ sch'.cur = sch.cur /\ sch'.nest = n
  BY <1>1 DEF SchType
<1>3. KInv(sch')
  BY <1>2 DEF Inv, KInv, ListsExact, BitmapExact, CloseExact
<1>4. OneRunning(sch')
  BY <1>2 DEF Inv, OneRunning
<1>5. TypeOK'
  BY <1>2 DEF Inv, TypeOK, PC
<1>6. pc'[t] = q
  BY DEF Inv, TypeOK
<1>7. BootQuiet' /\ IdleRunnable'
  BY <1>1, <1>2, SchOpsAssumption DEF Inv, BootQuiet, IdleRunnable, Booting
<1>8. NestOK' /\ NoRunWhileBlocked'
  BY <1>1, <1>2, <1>6 DEF Inv, NestOK, NoRunWhileBlocked
<1>9. HighestRuns'
  <2>1. HeadRuns(sch') <=> HeadRuns(sch)
    BY <1>2 DEF HeadRuns, NextTask
  <2>2. q # "switch" /\ n = 0 => HeadRuns(sch)
    BY <1>1 DEF Inv, HighestRuns, InTask
  <2>3. "switch" \notin {"user", "clear"} \cup Window
    BY DEF Window
  <2> QED BY <1>1, <1>2, <1>6, <2>1, <2>2, <2>3 DEF HighestRuns
<1>10. ReaperSafe' /\ TimersLive'
  BY <1>2 DEF Inv, ReaperSafe, TimersLive
<1> QED BY <1>3, <1>4, <1>5, <1>7, <1>8, <1>9, <1>10 DEF Inv

(***************************************************************************)
(* sch_lock: the task goes on with the scheduler locked.                   *)
(***************************************************************************)
LEMMA SchLockKeepsInv ==
  ASSUME Inv, NEW t \in Task, SchLock(t) PROVE Inv'
<1>1. InTask(t) /\ pc[t] = "user" /\ sch.nest \in Nat /\ pc \in [Task -> PC]
  BY SchFields DEF SchLock, InApp, Inv, TypeOK
<1>2. sch' = [sch EXCEPT !.nest = sch.nest + 1]
  BY DEF SchLock
<1>3. pc' = [pc EXCEPT ![t] = "user"]
  BY <1>1 DEF SchLock
<1>4. flag' \in [Task -> BOOLEAN] /\ UNCHANGED <<tm, slice, tick, victim>>
  BY DEF SchLock, Inv, TypeOK
<1>5. sch.nest + 1 \in Nat /\ sch.nest + 1 # 0
  BY <1>1
<1> QED BY <1>1, <1>2, <1>3, <1>4, <1>5, SameTasksKeepInv

(***************************************************************************)
(* sch_unlock: the last one is about to call switch_task, because tasks may *)
(* have been woken in the meantime.                                        *)
(***************************************************************************)
LEMMA SchUnlockKeepsInv ==
  ASSUME Inv, NEW t \in Task, SchUnlock(t) PROVE Inv'
<1> DEFINE q == IF sch.nest = 1 THEN "switch" ELSE "user"
<1>1. /\ InTask(t) /\ pc[t] = "user" /\ pc \in [Task -> PC]
      /\ sch.nest \in Nat /\ sch.nest > 0
  BY SchFields DEF SchUnlock, InApp, Inv, TypeOK
<1>2. sch' = [sch EXCEPT !.nest = sch.nest - 1]
  BY DEF SchUnlock
<1>3. pc' = [pc EXCEPT ![t] = q] /\ q \in {"user", "switch"}
  BY <1>1 DEF SchUnlock
<1>4. flag' \in [Task -> BOOLEAN] /\ UNCHANGED <<tm, slice, tick, victim>>
  BY DEF SchUnlock, Inv, TypeOK
<1>5. sch.nest - 1 \in Nat /\ ~(q # "switch" /\ sch.nest - 1 = 0)
  BY <1>1
<1> HIDE DEF q
<1> QED BY <1>1, <1>2, <1>3, <1>4, <1>5, SameTasksKeepInv

(***************************************************************************)
(* Going on a wait list.                                                   *)
(***************************************************************************)
LEMMA TaskEnlistKeepsInv ==
  ASSUME Inv, NEW t \in Task, TaskEnlist(t) PROVE Inv'
<1>1. InTask(t) /\ pc[t] = "user" /\ sch.nest \in Nat /\ sch \in SchType
  BY SchFields DEF TaskEnlist, InApp, Inv, TypeOK
<1>2. sch' = [sch EXCEPT !.nest = sch.nest] /\ sch.nest = 0
  BY <1>1 DEF TaskEnlist, SchType
<1>3. pc' = [pc EXCEPT ![t] = "enlist"]
  BY DEF TaskEnlist
<1>4. flag' \in [Task -> BOOLEAN] /\ UNCHANGED <<tm, slice, tick, victim>>
  BY DEF TaskEnlist, Inv, TypeOK
<1> QED BY <1>1, <1>2, <1>3, <1>4, SameTasksKeepInv

(***************************************************************************)
(* A kernel call that only ends in switch_task.                            *)
(***************************************************************************)
LEMMA TaskSwitchKeepsInv ==
  ASSUME Inv, NEW t \in Task, TaskSwitch(t) PROVE Inv'
<1>1. InTask(t) /\ pc[t] = "user" /\ sch.nest \in Nat /\ sch \in SchType
  BY SchFields DEF TaskSwitch, InApp, Inv, TypeOK
<1>2. sch' = [sch EXCEPT !.nest = sch.nest]
  BY <1>1 DEF TaskSwitch, SchType
<1>3. pc' = [pc EXCEPT ![t] = "switch"]
  BY DEF TaskSwitch
<1>4. flag' \in [Task -> BOOLEAN] /\ UNCHANGED <<tm, slice, tick, victim>>
  BY DEF TaskSwitch, Inv, TypeOK
<1> QED BY <1>1, <1>2, <1>3, <1>4, SameTasksKeepInv

(***************************************************************************)
(* The end of task_sleep.                                                  *)
(***************************************************************************)
LEMMA ClearFlagKeepsInv ==
  ASSUME Inv, NEW t \in Task, ClearFlag(t) PROVE Inv'
<1>1. InTask(t) /\ pc[t] = "clear" /\ sch.nest \in Nat /\ sch \in SchType
  BY SchFields DEF ClearFlag, Inv, TypeOK
<1>2. sch' = [sch EXCEPT !.nest = sch.nest]
  BY <1>1 DEF ClearFlag, SchType
<1>3. pc' = [pc EXCEPT ![t] = "user"]
  BY DEF ClearFlag
<1>4. flag' \in [Task -> BOOLEAN] /\ UNCHANGED <<tm, slice, tick, victim>>
  BY DEF ClearFlag, Inv, TypeOK
<1> QED BY <1>1, <1>2, <1>3, <1>4, SameTasksKeepInv

(***************************************************************************)
(* The switch_task call that ends a kernel function.  NestOK matters here: *)
(* a blocked task never finds the scheduler locked.                        *)
(***************************************************************************)
LEMMA CallSwitchKeepsInv ==
  ASSUME Inv, NEW t \in Task, CallSwitch(t) PROVE Inv'
<1>1. /\ sch.cur = t /\ tick = "idle" /\ pc[t] \in BeforeSwitch
      /\ sch \in SchType /\ ~Booting /\ pc \in [Task -> PC]
  BY SchOpsAssumption DEF CallSwitch, InTask, Inv, KInv, TypeOK, Booting
<1>2. sch.mask # {}
  BY <1>1, SchedAssumption, RunnableListed DEF Inv, IdleRunnable
<1>3. /\ KInv(sch') /\ OneRunning(sch')
      /\ \A v \in Task : /\ sch'.status[v] \in Runnable <=> sch.status[v] \in Runnable
                         /\ sch.status[v] \notin Runnable => sch'.status[v] = sch.status[v]
      /\ sch'.nest = sch.nest /\ sch'.close = sch.close
      /\ sch.nest # 0 => sch' = sch
      /\ sch.nest = 0 => HeadRuns(sch')
  BY <1>2, SwitchAgrees DEF Inv, CallSwitch
<1>4. sch'.cur \in Task
  <2>1. CASE sch' = sch
    BY <2>1, <1>1
  <2>2. CASE HeadRuns(sch')
    BY <2>2, <1>3, NextTaskProperties DEF HeadRuns
  <2> QED BY <2>1, <2>2, <1>3
<1>5. /\ pc'[t] \in {"clear", "exit", "user"}
      /\ \A v \in Task \ {t} : pc'[v] = pc[v]
      /\ pc[t] = "exit" => pc'[t] = "exit"
      /\ pc[t] = "slept" => pc'[t] = "clear"
      /\ pc[t] \in {"hung", "switch"} => pc'[t] = "user"
      /\ UNCHANGED <<tm, slice, flag, tick, victim>>
  BY <1>1 DEF CallSwitch
<1>6. TypeOK'
  <2>1. pc' \in [Task -> PC]
    BY <1>1 DEF CallSwitch, PC
  <2> QED BY <2>1, <1>3, <1>5 DEF Inv, TypeOK, KInv
<1>7. BootQuiet' /\ IdleRunnable'
  BY <1>1, <1>3, <1>4, <1>5, SchedAssumption, SchOpsAssumption
     DEF Inv, BootQuiet, IdleRunnable, Booting
<1>8. CASE sch.nest = 0
  <2>1. HeadRuns(sch') /\ sch'.nest = 0
    BY <1>3, <1>8
  <2>2. NestOK' /\ NoRunWhileBlocked' /\ HighestRuns'
    BY <2>1 DEF NestOK, NoRunWhileBlocked, HighestRuns, HeadRuns, Runnable
  <2>3. ReaperSafe'
    <3> SUFFICES ASSUME victim # NoTask
                 PROVE  /\ sch'.status[victim] = "close" /\ sch'.cur # victim
                        /\ victim \notin ToSet(sch'.close)
                        /\ \A p \in Prio : victim \notin ToSet(sch'.ready[p])
      BY <1>5 DEF ReaperSafe
    <3>1. victim \in Task /\ sch.status[victim] = "close"
      BY DEF Inv, TypeOK, ReaperSafe
    <3>2. sch'.status[victim] = "close"
      BY <1>3, <3>1 DEF Runnable
    <3>3. \A p \in Prio : victim \notin ToSet(sch'.ready[p])
      BY <1>3, <3>1, <3>2 DEF KInv, ListsExact, Runnable
    <3> QED BY <1>3, <2>1, <3>2, <3>3 DEF Inv, ReaperSafe, HeadRuns
  <2>4. TimersLive'
    BY <1>3, <1>5, ArmedLive DEF Inv, TimersLive, Armed, Live
  <2> QED BY <2>2, <2>3, <2>4, <1>3, <1>6, <1>7 DEF Inv
<1>9. CASE sch.nest # 0
  <2>1. sch' = sch
    BY <1>3, <1>9
  <2>2. pc[t] = "switch" /\ pc'[t] = "user"
    BY <1>1, <1>5, <1>9 DEF Inv, NestOK, BeforeSwitch
  <2>3. NestOK' /\ NoRunWhileBlocked' /\ HighestRuns'
    BY <1>1, <1>9, <2>1, <2>2 DEF Inv, NestOK, NoRunWhileBlocked, HighestRuns
  <2>4. ReaperSafe' /\ TimersLive'
    BY <1>5, <2>1 DEF Inv, ReaperSafe, TimersLive
  <2> QED BY <2>3, <2>4, <1>3, <1>6, <1>7 DEF Inv
<1> QED BY <1>8, <1>9

(***************************************************************************)
(* The idle task takes a closed task off close_task_list.                  *)
(***************************************************************************)
LEMMA IdlePopKeepsInv == Inv /\ IdlePop => Inv'
<1> SUFFICES ASSUME Inv, IdlePop PROVE Inv'
  OBVIOUS
<1> DEFINE h == Head(sch.close)
<1>1. /\ sch \in SchType /\ sch.close \in Seq(Task) /\ sch.close # <<>>
      /\ sch.cur = Idle /\ pc[Idle] = "user" /\ Idle \in Task
  BY SchFields, SchedAssumption DEF IdlePop, InTask, Inv, KInv
<1>2. h \in Task /\ h \in ToSet(sch.close)
  <2>1. Len(sch.close) \in Nat \ {0} /\ h = sch.close[1] /\ sch.close[1] \in Task
    BY <1>1
  <2> QED BY <1>1, <2>1 DEF ToSet
<1>3. sch.status[h] = "close" /\ NoDup(sch.close)
  BY <1>2 DEF Inv, KInv, CloseExact
<1>4. sch' = Unlink(sch, h) /\ victim' = h /\ UNCHANGED <<tm, slice, flag, pc, tick>>
  BY DEF IdlePop
<1> HIDE DEF h
<1>5. /\ Loose(sch', h) /\ sch'.status = sch.status /\ sch'.prio = sch.prio
      /\ sch'.mask = sch.mask /\ sch'.cur = sch.cur /\ sch'.nest = sch.nest
      /\ \A p \in Prio : sch'.ready[p] = ListDel(sch.ready[p], h)
      /\ sch'.close = ListDel(sch.close, h)
  BY <1>2, <1>4, AgreementSplits, UnlinkLoosens DEF Inv
<1>6. \A p \in Prio : sch'.ready[p] = sch.ready[p]
  <2>1. \A p \in Prio : sch.ready[p] \in Seq(Task)
    BY <1>1, SchFields
  <2>2. \A p \in Prio : h \notin ToSet(sch.ready[p])
    BY <1>2, <1>3 DEF Inv, KInv, ListsExact, Runnable
  <2> QED BY <1>5, <2>1, <2>2, ListDelAbsent
<1>7. sch' \in SchType
  BY <1>5 DEF Loose, OthersExact
<1>8. KInv(sch')
  <2>1. BitmapExact(sch')
    BY <1>5, <1>6 DEF Inv, KInv, BitmapExact
  <2>2. sch'.status[h] \notin Runnable
    BY <1>3, <1>5 DEF Runnable
  <2> QED BY <1>2, <1>5, <2>1, <2>2, LooseAgrees
<1>9. OneRunning(sch')
  BY <1>5 DEF Inv, OneRunning
<1>10. TypeOK'
  BY <1>2, <1>4, <1>7 DEF Inv, TypeOK
<1>11. BootQuiet' /\ IdleRunnable' /\ NestOK' /\ NoRunWhileBlocked'
  BY <1>4, <1>5 DEF Inv, BootQuiet, IdleRunnable, NestOK, NoRunWhileBlocked, Booting
<1>12. HighestRuns'
  <2>1. sch.mask # {} => NextTask(sch') = NextTask(sch)
    <3> SUFFICES ASSUME sch.mask # {} PROVE NextTask(sch') = NextTask(sch)
      OBVIOUS
    <3>1. sch.mask \in SUBSET Prio /\ Prio \subseteq Nat
      BY <1>1, SchFields DEF Prio
    <3>2. Min(sch.mask) \in Prio
      BY <3>1, MinProperties
    <3> QED BY <3>2, <1>5, <1>6 DEF NextTask
  <2> QED BY <1>4, <1>5, <2>1 DEF Inv, HighestRuns, HeadRuns
<1>13. ReaperSafe'
  <2>1. sch.status[Idle] \in Runnable
    BY <1>1 DEF Inv, NoRunWhileBlocked
  <2>2. sch.cur # h
    BY <1>1, <1>3, <2>1 DEF Runnable
  <2>3. h \notin ToSet(sch'.close)
    BY <1>5 DEF Loose
  <2>4. \A p \in Prio : h \notin ToSet(sch'.ready[p])
    BY <1>2, <1>3, <1>5, <1>8 DEF KInv, ListsExact, Runnable
  <2> QED BY <1>3, <1>4, <1>5, <2>2, <2>3, <2>4 DEF ReaperSafe
<1>14. TimersLive'
  BY <1>4, <1>5 DEF Inv, TimersLive
<1> QED BY <1>8, <1>9, <1>10, <1>11, <1>12, <1>13, <1>14 DEF Inv

(***************************************************************************)
(* The idle task frees a closed task, which no list and nobody refers to.  *)
(***************************************************************************)
LEMMA IdleFreeKeepsInv == Inv /\ IdleFree => Inv'
<1> SUFFICES ASSUME Inv, IdleFree PROVE Inv'
  OBVIOUS
<1>1. /\ sch \in SchType /\ victim \in Task /\ sch.status[victim] = "close"
      /\ victim \notin ToSet(sch.close) /\ sch.cur # victim /\ sch.cur = Idle
  BY DEF IdleFree, InTask, Inv, KInv, TypeOK, ReaperSafe
<1>2. /\ sch' = SetStatus(sch, victim, "none") /\ victim' = NoTask
      /\ UNCHANGED <<tm, slice, flag, pc, tick>>
  BY DEF IdleFree
<1>3. /\ sch' \in SchType /\ sch'.status = [sch.status EXCEPT ![victim] = "none"]
      /\ sch'.ready = sch.ready /\ sch'.mask = sch.mask /\ sch'.close = sch.close
      /\ sch'.prio = sch.prio /\ sch'.cur = sch.cur /\ sch'.nest = sch.nest
  BY <1>1, <1>2, SetStatusFields DEF Status
<1>4. \A v \in Task : sch'.status[v] = IF v = victim THEN "none" ELSE sch.status[v]
  BY <1>1, <1>3, SchFields
<1>5. KInv(sch')
  <2>1. \A v \in Task : sch'.status[v] \in Runnable <=> sch.status[v] \in Runnable
    BY <1>1, <1>4 DEF Runnable
  <2>2. \A v \in ToSet(sch.close) : v \in Task /\ v # victim /\ sch.status[v] = "close"
    BY <1>1, SchFields DEF Inv, KInv, CloseExact, ToSet
  <2>3. \A v \in ToSet(sch.close) : sch'.status[v] = "close"
    BY <2>2, <1>4
  <2> QED BY <2>1, <2>3, <1>3, SameQueues DEF Inv
<1>6. OneRunning(sch')
  BY <1>3, <1>4 DEF Inv, OneRunning
<1>7. TypeOK'
  BY <1>2, <1>3 DEF Inv, TypeOK
<1>8. BootQuiet' /\ IdleRunnable' /\ NestOK'
  BY <1>1, <1>2, <1>3, <1>4, SchedAssumption
     DEF Inv, BootQuiet, IdleRunnable, NestOK, Booting, Runnable
<1>9. NoRunWhileBlocked'
  BY <1>1, <1>2, <1>3, <1>4 DEF Inv, NoRunWhileBlocked
<1>10. HighestRuns'
  BY <1>1, <1>2, <1>3, <1>4, SchedAssumption DEF Inv, HighestRuns, HeadRuns, NextTask
<1>11. ReaperSafe'
  BY <1>2 DEF ReaperSafe
<1>12. TimersLive'
  BY <1>1, <1>2, <1>4, ArmedLive DEF Inv, TimersLive, Armed, Live, Runnable
<1> QED BY <1>5, <1>6, <1>7, <1>8, <1>9, <1>10, <1>11, <1>12 DEF Inv

-----------------------------------------------------------------------------
(***************************************************************************)
(* A step that changes nothing.                                            *)
(***************************************************************************)
LEMMA StutterKeepsInv == Inv /\ UNCHANGED vars => Inv'
<1> SUFFICES ASSUME Inv, UNCHANGED vars PROVE Inv'
  OBVIOUS
<1> USE DEF vars
<1>1. TypeOK' /\ TimersLive' /\ ReaperSafe'
  BY DEF Inv, TypeOK, TimersLive, ReaperSafe
<1>2. BootQuiet' /\ IdleRunnable' /\ NestOK' /\ NoRunWhileBlocked' /\ HighestRuns'
  BY DEF Inv, BootQuiet, IdleRunnable, NestOK, NoRunWhileBlocked, HighestRuns, Booting
<1> QED BY <1>1, <1>2 DEF Inv

(***************************************************************************)
(* Inv is inductive.                                                       *)
(***************************************************************************)
LEMMA NextKeepsInv == Inv /\ [Next]_vars => Inv'
<1> SUFFICES ASSUME Inv, [Next]_vars PROVE Inv'
  OBVIOUS
<1>1. CASE Start
  BY <1>1, StartKeepsInv
<1>2. CASE Tick
  BY <1>2, TickCountKeepsInv, TickYieldKeepsInv, TickTimersKeepsInv DEF Tick
<1>3. CASE IdlePop \/ IdleFree \/ IsrSwitch
  BY <1>3, IdlePopKeepsInv, IdleFreeKeepsInv, IsrSwitchKeepsInv
<1>4. CASE UNCHANGED vars
  BY <1>4, StutterKeepsInv
<1>5. ASSUME NEW t \in Task, TaskCreate(t) \/ TaskReady(t) \/ IsrWake(t) PROVE Inv'
  BY <1>5, TaskCreateKeepsInv, TaskReadyKeepsInv, IsrWakeKeepsInv
<1>6. ASSUME NEW t \in Task, TaskStep(t) PROVE Inv'
  <2>1. CASE \/ TaskExit(t) \/ TaskEnlist(t) \/ TaskHang(t)
             \/ \E n \in SleepTicks : TaskSleep(t, n)
    BY <2>1, TaskExitKeepsInv, TaskEnlistKeepsInv, TaskHangKeepsInv, TaskSleepKeepsInv
  <2>2. CASE \E u \in Task : TaskWake(t, u)
    BY <2>2, TaskWakeKeepsInv
  <2>3. CASE \/ TaskSwitch(t) \/ SchLock(t) \/ SchUnlock(t)
             \/ CallSwitch(t) \/ ClearFlag(t)
    BY <2>3, TaskSwitchKeepsInv, SchLockKeepsInv, SchUnlockKeepsInv, CallSwitchKeepsInv, ClearFlagKeepsInv
  <2> QED BY <1>6, <2>1, <2>2, <2>3 DEF TaskStep
<1> QED BY <1>1, <1>2, <1>3, <1>4, <1>5, <1>6 DEF Next

(***************************************************************************)
(* Inv holds in every reachable state.                                     *)
(***************************************************************************)
LEMMA SpecInv == Spec => []Inv
<1> QED BY InitInv, NextKeepsInv, PTL DEF Spec

-----------------------------------------------------------------------------
(***************************************************************************)
(* Every variable keeps its type; remaining_tick never reaches 0.          *)
(***************************************************************************)
THEOREM TypeCorrect == Spec => []TypeOK
<1>1. Inv => TypeOK
  BY DEF Inv, TypeOK
<1> QED BY <1>1, SpecInv, PTL

(***************************************************************************)
(* A task is queued once, where its priority says, exactly when it is ready *)
(* or running; closed tasks are on close_task_list; only one task runs.    *)
(***************************************************************************)
THEOREM QueuesAreExact == Spec => []QueuesExact
<1>1. Inv => QueuesExact
  BY DEF Inv, QueuesExact, KInv
<1> QED BY <1>1, SpecInv, PTL

(***************************************************************************)
(* The ready bitmap tells exactly which lists are not empty, as long as no *)
(* task changes its priority.                                              *)
(***************************************************************************)
THEOREM BitmapAlwaysExact == Spec => []BitmapIsExact
<1>1. Inv => BitmapIsExact
  BY DEF Inv, BitmapIsExact, KInv
<1> QED BY <1>1, SpecInv, PTL

(***************************************************************************)
(* Task code that has not locked the scheduler is the first task of the    *)
(* most urgent list, for any number of tasks and priorities.               *)
(***************************************************************************)
THEOREM PriorityPreemption == Spec => []HighestRuns
<1>1. Inv => HighestRuns
  BY DEF Inv
<1> QED BY <1>1, SpecInv, PTL

(***************************************************************************)
(* A task that blocked itself runs again only after it has been woken.     *)
(***************************************************************************)
THEOREM BlockedTaskStaysOff == Spec => []NoRunWhileBlocked
<1>1. Inv => NoRunWhileBlocked
  BY DEF Inv
<1> QED BY <1>1, SpecInv, PTL

(***************************************************************************)
(* Timers of waiting tasks stay so as long as a step links no timer and    *)
(* wakes nobody whose timer stays linked.                                  *)
(***************************************************************************)
LEMMA WaitersKeepWaiting ==
  ASSUME Inv, TimeoutFindsWaiter, ToSet(tm'.list) \subseteq ToSet(tm.list),
         \A v \in Task : v \in ToSet(tm'.list) /\ sch.status[v] = "wait" => sch'.status[v] = "wait"
  PROVE  TimeoutFindsWaiter'
BY ArmedLive DEF TimeoutFindsWaiter, Armed

LEMMA StopUnlinks ==
  ASSUME Inv, NEW t \in Task, tm' = timer_stop(tm, t)
  PROVE  ToSet(tm'.list) = ToSet(tm.list) \ {t}
BY SchedAssumption, TimerStopKeeps DEF Inv, TypeOK, TimersLive

(***************************************************************************)
(* SysTick and the handlers: a task leaves the waiting state only with its *)
(* timer off the list.                                                     *)
(***************************************************************************)
LEMMA HandlersWakeUnlinked ==
  ASSUME Inv, TimeoutFindsWaiter,
         Start \/ Tick \/ IsrSwitch \/ \E t \in Task : IsrWake(t) \/ CallSwitch(t)
  PROVE  TimeoutFindsWaiter'
<1>0. "wait" \notin Runnable /\ KInv(sch) /\ OneRunning(sch)
  BY DEF Runnable, Inv
<1>1. ASSUME ~Booting \/ Start PROVE sch.mask # {}
  <2>1. sch.status[Idle] \in Runnable
    BY <1>1 DEF Inv, IdleRunnable, Start, Runnable
  <2> QED BY <1>0, <2>1, SchedAssumption, RunnableListed
<1>2. CASE Start
  <2>1. \A v \in Task : sch.status[v] # "running"
    BY <1>0, <1>2, SchOpsAssumption DEF Start, OneRunning, Booting
  <2>2. \A v \in Task : sch.status[v] \notin Runnable => sch'.status[v] = sch.status[v]
    BY <1>0, <1>1, <1>2, <2>1, StartAgrees DEF Start
  <2> QED BY <1>0, <1>2, <2>2, WaitersKeepWaiting DEF Start
<1>3. CASE TickCount
  <2>1. tm'.list = tm.list /\ sch' = sch
    BY <1>3, RunTickKeeps DEF TickCount, Inv, TypeOK
  <2> QED BY <2>1, WaitersKeepWaiting
<1>4. CASE TickYield
  <2>1. sch.cur \in Task
    BY <1>4, SchFields DEF TickYield, Inv, TypeOK, BootQuiet, Booting
  <2>2. \A v \in Task : sch.status[v] \notin Runnable => sch'.status[v] = sch.status[v]
    BY <1>0, <1>4, <2>1, YieldAgrees DEF TickYield
  <2> QED BY <1>0, <1>4, <2>2, WaitersKeepWaiting DEF TickYield
<1>5. ASSUME NEW t \in Task, NEW r, KInv(r), r.status = [sch.status EXCEPT ![t] = "ready"],
             r.cur = sch.cur, r.nest = sch.nest, ~Booting,
             sch' = switch_task(r), tm' = timer_stop(tm, t)
      PROVE  TimeoutFindsWaiter'
  <2>1. ToSet(tm'.list) = ToSet(tm.list) \ {t}
    BY <1>5, StopUnlinks
  <2>2. \A v \in Task \ {t} : sch.status[v] \notin Runnable => sch'.status[v] = sch.status[v]
    BY <1>5, WakeMovesOne
  <2> QED BY <1>0, <2>1, <2>2, WaitersKeepWaiting
<1>6. CASE TickTimers
  <2>1. CASE HeadIsDue(tm)
    <3> DEFINE t == Head(tm.list)
               r == add_task_to_ready_list(Unlink(sch, t), t)
    <3>1. t \in Task /\ ~Booting
      BY <1>6, <2>1, SchedAssumption DEF TickTimers, Inv, TypeOK, TimerType, HeadIsDue, BootQuiet
    <3>2. sch' = switch_task(r) /\ tm' = timer_stop(tm, t)
      BY <1>6, <2>1 DEF TickTimers
    <3> HIDE DEF t
    <3>3. /\ KInv(r) /\ r.status = [sch.status EXCEPT ![t] = "ready"]
          /\ r.cur = sch.cur /\ r.nest = sch.nest
      BY <1>0, <3>1, RelinkAgrees
    <3> HIDE DEF r
    <3> QED BY <1>5, <3>1, <3>2, <3>3
  <2>2. CASE ~HeadIsDue(tm)
    BY <1>6, <2>2, WaitersKeepWaiting DEF TickTimers
  <2> QED BY <2>1, <2>2
<1>7. ASSUME NEW t \in Task, IsrWake(t) PROVE TimeoutFindsWaiter'
  <2>1. /\ KInv(resume(sch, t)) /\ resume(sch, t).status = [sch.status EXCEPT ![t] = "ready"]
        /\ resume(sch, t).cur = sch.cur /\ resume(sch, t).nest = sch.nest
    BY <1>0, ResumeAgrees
  <2> QED BY <1>5, <1>7, <2>1 DEF IsrWake
<1>8. ASSUME NEW t \in Task, IsrSwitch \/ CallSwitch(t) PROVE TimeoutFindsWaiter'
  <2>1. ~Booting /\ sch' = switch_task(sch) /\ tm' = tm
    BY <1>8, SchOpsAssumption DEF IsrSwitch, CallSwitch, InTask, Booting
  <2>2. \A v \in Task : sch.status[v] \notin Runnable => sch'.status[v] = sch.status[v]
    BY <1>0, <1>1, <2>1, SwitchAgrees
  <2> QED BY <1>0, <2>1, <2>2, WaitersKeepWaiting
<1> QED BY <1>2, <1>3, <1>4, <1>6, <1>7, <1>8, SchedAssumption DEF Tick

(***************************************************************************)
(* Task code and the idle task: a task links its own timer when it waits.  *)
(***************************************************************************)
LEMMA TasksWakeUnlinked ==
  ASSUME Inv, TimeoutFindsWaiter, NEW t \in Task,
         TaskCreate(t) \/ TaskReady(t) \/ TaskStep(t) \/ IdlePop \/ IdleFree
  PROVE  TimeoutFindsWaiter'
<1>0. sch \in SchType /\ KInv(sch) /\ sch.status \in [Task -> Status]
  BY SchFields DEF Inv, KInv
<1>1. ASSUME sch'.status = sch.status, tm' = tm PROVE TimeoutFindsWaiter'
  BY <1>1, WaitersKeepWaiting
<1>2. ASSUME NEW u \in Task, NEW x, sch.status[u] # "wait",
             sch'.status = [sch.status EXCEPT ![u] = x], tm' = tm
      PROVE  TimeoutFindsWaiter'
  <2>1. \A v \in Task : sch.status[v] = "wait" => sch'.status[v] = "wait"
    BY <1>0, <1>2
  <2> QED BY <1>2, <2>1, WaitersKeepWaiting
<1>3. ASSUME NEW u \in Task, NEW x,
             sch'.status = [sch.status EXCEPT ![u] = x], tm' = timer_stop(tm, u)
      PROVE  TimeoutFindsWaiter'
  <2>1. ToSet(tm'.list) = ToSet(tm.list) \ {u}
    BY <1>3, StopUnlinks
  <2>2. \A v \in Task \ {u} : sch'.status[v] = sch.status[v]
    BY <1>0, <1>3
  <2> QED BY <2>1, <2>2, WaitersKeepWaiting
<1>4. CASE TaskCreate(t)
  <2>1. sch'.status = [sch.status EXCEPT ![t] = "suspend"]
    BY <1>0, <1>4 DEF TaskCreate, SchType
  <2> QED BY <1>2, <1>4, <2>1 DEF TaskCreate
<1>5. CASE TaskReady(t)
  <2>1. sch'.status = [sch.status EXCEPT ![t] = "ready"]
    BY <1>0, <1>5 DEF TaskReady, add_task_to_ready_list, SchType
  <2> QED BY <1>2, <1>5, <2>1 DEF TaskReady
<1>6. CASE TaskExit(t)
  <2>1. sch.status[t] # "close"
    BY <1>6, AppRunnable DEF TaskExit, Runnable
  <2>2. sch'.status = [sch.status EXCEPT ![t] = "close"]
    BY <1>0, <1>6, <2>1, DeleteAgrees DEF TaskExit
  <2> QED BY <1>3, <1>6, <2>2 DEF TaskExit
<1>7. ASSUME AtHang(t), sch' = hang(sch, t)
      PROVE  sch'.status = [sch.status EXCEPT ![t] = "wait"]
  BY <1>0, <1>7, AtHangRunnable, HangAgrees
<1>8. CASE TaskHang(t)
  BY <1>3, <1>7, <1>8 DEF TaskHang
<1>9. ASSUME NEW n \in SleepTicks, TaskSleep(t, n) PROVE TimeoutFindsWaiter'
  <2> DEFINE m == timer_stop(tm, t)
  <2>1. m \in TimerType /\ NoDup(m.list) /\ ToSet(m.list) = ToSet(tm.list) \ {t}
    BY SchedAssumption, TimerStopKeeps DEF Inv, TypeOK, TimersLive
  <2>2. tm' = timer_start(m, t, n) /\ n \in Nat /\ t \in Timer
    BY <1>9, SchedAssumption DEF TaskSleep
  <2> HIDE DEF m
  <2>3. ToSet(tm'.list) = ToSet(m.list) \cup {t}
    BY <2>1, <2>2, TimerStartKeeps
  <2>4. sch'.status = [sch.status EXCEPT ![t] = "wait"]
    BY <1>7, <1>9, AppRunnable DEF TaskSleep
  <2> QED BY <1>0, <2>1, <2>3, <2>4, ArmedLive DEF TimeoutFindsWaiter, Armed
<1>10. ASSUME NEW u \in Task, TaskWake(t, u) PROVE TimeoutFindsWaiter'
  <2>1. sch'.status = [sch.status EXCEPT ![u] = "ready"]
    BY <1>0, <1>10, ResumeAgrees DEF TaskWake
  <2> QED BY <1>3, <1>10, <2>1 DEF TaskWake
<1>11. CASE TaskEnlist(t) \/ TaskSwitch(t) \/ SchLock(t) \/ SchUnlock(t) \/ ClearFlag(t)
  BY <1>0, <1>1, <1>11 DEF TaskEnlist, TaskSwitch, SchLock, SchUnlock, ClearFlag, SchType
<1>12. CASE CallSwitch(t)
  BY <1>12, HandlersWakeUnlinked
<1>13. CASE IdlePop
  <2>1. sch'.status = sch.status
    BY <1>0, <1>13 DEF IdlePop, Unlink, SchType
  <2> QED BY <1>1, <1>13, <2>1 DEF IdlePop
<1>14. CASE IdleFree
  <2>1. sch.status[victim] = "close" /\ victim \in Task
    BY <1>14 DEF IdleFree, Inv, TypeOK, ReaperSafe
  <2>2. sch'.status = [sch.status EXCEPT ![victim] = "none"]
    BY <1>0, <1>14, <2>1, SetStatusFields DEF IdleFree, Status
  <2> QED BY <1>2, <1>14, <2>1, <2>2 DEF IdleFree
<1> QED
  BY <1>4, <1>5, <1>6, <1>8, <1>9, <1>10, <1>11, <1>12, <1>13, <1>14 DEF TaskStep

(***************************************************************************)
(* The assertion of the timeout callback never fails, as long as tasks     *)
(* start their timers only in the critical section in which they block     *)
(* themselves, as task_sleep does.                                         *)
(***************************************************************************)
THEOREM TimeoutAssertion == Spec => []TimeoutFindsWaiter
<1>1. Init => TimeoutFindsWaiter
  BY DEF Init, TimerInit, TimeoutFindsWaiter, Armed, ToSet
<1>2. Inv /\ TimeoutFindsWaiter /\ [Next]_vars => TimeoutFindsWaiter'
  <2>1. UNCHANGED vars /\ TimeoutFindsWaiter => TimeoutFindsWaiter'
    BY DEF vars, TimeoutFindsWaiter
  <2> QED BY <2>1, HandlersWakeUnlinked, TasksWakeUnlinked, SchedAssumption DEF Next
<1> QED BY <1>1, <1>2, SpecInv, PTL DEF Spec

(***************************************************************************)
(* The idle task frees no task that is current or on a list.               *)
(***************************************************************************)
THEOREM ReaperFreesNoUser == Spec => []ReaperSafe
<1>1. Inv => ReaperSafe
  BY DEF Inv
<1> QED BY <1>1, SpecInv, PTL

(***************************************************************************)
(* Nothing takes the CPU away from a task that has locked the scheduler.   *)
(***************************************************************************)
THEOREM LockPinsCpu == Spec => LockPins
<1>1. ASSUME Inv, [Next]_vars, sch.nest > 0 PROVE sch'.cur = sch.cur
  <2> USE <1>1
  <2>1. sch.cur \in Task /\ ~Booting /\ sch.nest # 0 /\ sch \in SchType /\ KInv(sch)
    BY SchFields DEF Inv, KInv, BootQuiet, Booting
  <2>2. CASE Start
    BY <2>1, <2>2 DEF Start
  <2>3. CASE Tick
    <3>1. CASE TickCount
      BY <3>1 DEF TickCount
    <3>2. CASE TickYield
      BY <2>1, <3>2, YieldAgrees DEF TickYield, Inv
    <3>3. CASE TickTimers
      <4>1. CASE HeadIsDue(tm)
        <5> DEFINE t == Head(tm.list)
                   r == add_task_to_ready_list(Unlink(sch, t), t)
        <5>1. r.cur = sch.cur /\ r.nest = sch.nest
          BY DEF add_task_to_ready_list, Unlink
        <5>2. sch' = switch_task(r)
          BY <3>3, <4>1 DEF TickTimers
        <5> HIDE DEF r
        <5> QED BY <2>1, <5>1, <5>2 DEF switch_task
      <4> QED BY <3>3, <4>1 DEF TickTimers
    <3> QED BY <2>3, <3>1, <3>2, <3>3 DEF Tick
  <2>4. CASE IdlePop \/ IdleFree \/ IsrSwitch
    <3>1. ASSUME NEW h PROVE Unlink(sch, h).cur = sch.cur
      BY <2>1 DEF Unlink, SchType
    <3>2. ASSUME NEW h PROVE SetStatus(sch, h, "none").cur = sch.cur
      BY <2>1 DEF SetStatus, SchType
    <3> QED BY <2>1, <2>4, <3>1, <3>2 DEF IdlePop, IdleFree, IsrSwitch, switch_task
  <2>5. CASE UNCHANGED vars
    BY <2>5 DEF vars
  <2>6. ASSUME NEW t \in Task, TaskCreate(t) \/ TaskReady(t) PROVE sch'.cur = sch.cur
    <3>1. add_task_to_ready_list(sch, t).cur = sch.cur
      BY <2>1 DEF add_task_to_ready_list, SchType
    <3>2. CASE TaskCreate(t)
      BY <2>1, <3>2 DEF TaskCreate, SchType
    <3>3. CASE TaskReady(t)
      BY <3>1, <3>3 DEF TaskReady
    <3> QED BY <2>6, <3>2, <3>3
  <2>7. ASSUME NEW t \in Task, IsrWake(t) PROVE sch'.cur = sch.cur
    <3>1. resume(sch, t).cur = sch.cur /\ resume(sch, t).nest = sch.nest
      BY <2>1, ResumeAgrees
    <3> QED BY <2>1, <2>7, <3>1 DEF IsrWake, switch_task
  <2>8. ASSUME NEW t \in Task, TaskStep(t) PROVE sch'.cur = sch.cur
    <3>1. CASE \/ TaskExit(t) \/ TaskEnlist(t) \/ TaskHang(t)
               \/ \E n \in SleepTicks : TaskSleep(t, n)
      BY <2>1, <3>1 DEF TaskExit, TaskEnlist, TaskHang, TaskSleep
    <3>2. CASE \E u \in Task : TaskWake(t, u)
      <4>1. PICK u \in Task : TaskWake(t, u)
        BY <3>2
      <4>2. resume(sch, u).cur = sch.cur
        BY <2>1, ResumeAgrees
      <4> QED BY <4>1, <4>2 DEF TaskWake
    <3>3. CASE TaskSwitch(t) \/ SchLock(t) \/ SchUnlock(t)
      BY <2>1, <3>3 DEF TaskSwitch, SchLock, SchUnlock, SchType
    <3>4. CASE CallSwitch(t) \/ ClearFlag(t)
      BY <2>1, <3>4 DEF CallSwitch, ClearFlag, switch_task
    <3> QED BY <2>8, <3>1, <3>2, <3>3, <3>4 DEF TaskStep
  <2> QED BY <2>2, <2>3, <2>4, <2>5, <2>6, <2>7, <2>8 DEF Next
<1> QED BY <1>1, SpecInv, PTL DEF Spec, LockPins

-----------------------------------------------------------------------------
(***************************************************************************)
(* What a function of the scheduler does to a list: nothing, or it unlinks *)
(* one task, or it links that task at the tail.                            *)
(***************************************************************************)
Moved(l, r, t) == r = l \/ r = ListDel(l, t) \/ r = Append(ListDel(l, t), t)
OneMoves(k, r, t) == \A p \in Prio : Moved(k.ready[p], r.ready[p], t)

(***************************************************************************)
(* Unlinking a task keeps the others in their order.                       *)
(***************************************************************************)
LEMMA UnlinkKeepsOrder ==
  ASSUME NEW l \in Seq(Task), NoDup(l), NEW t, NEW a, NEW b, a # t, b # t, Ahead(l, a, b)
  PROVE  Ahead(ListDel(l, t), a, b)
<1>1. CASE t \notin ToSet(l)
  BY <1>1, ListDelAbsent
<1>2. CASE t \in ToSet(l)
  <2>1. PICK k \in 1..Len(l) : t = l[k]
    BY <1>2 DEF ToSet
  <2> DEFINE r == ListDel(l, t)
  <2>2. /\ r \in Seq(Task) /\ Len(r) = Len(l) - 1
        /\ \A i \in 1..(Len(l)-1) : r[i] = IF i < k THEN l[i] ELSE l[i+1]
    BY <2>1, ListDelPresent, RemoveAtPlaces
  <2>3. PICK i \in 1..Len(l), j \in 1..Len(l) : i < j /\ l[i] = a /\ l[j] = b
    BY DEF Ahead
  <2>4. i # k /\ j # k
    BY <2>1, <2>3
  <2> DEFINE x == IF i < k THEN i ELSE i - 1
             y == IF j < k THEN j ELSE j - 1
  <2>5. x \in 1..(Len(l)-1) /\ y \in 1..(Len(l)-1) /\ x < y
    BY <2>3, <2>4
  <2>6. r[x] = a /\ r[y] = b
    <3> HIDE DEF r
    <3>1. ASSUME NEW i0 \in 1..Len(l), i0 # k, NEW x0, x0 = IF i0 < k THEN i0 ELSE i0 - 1,
                 x0 \in 1..(Len(l)-1)
          PROVE  r[x0] = l[i0]
      <4>1. CASE i0 < k
        BY <2>2, <3>1, <4>1
      <4>2. CASE ~(i0 < k)
        <5>1. x0 = i0 - 1 /\ ~(x0 < k) /\ x0 + 1 = i0
          BY <3>1, <4>2
        <5> QED BY <2>2, <3>1, <5>1
      <4> QED BY <4>1, <4>2
    <3> QED BY <2>3, <2>4, <2>5, <3>1
  <2>7. DOMAIN r = 1..(Len(l)-1)
    BY <2>2
  <2> HIDE DEF r, x, y
  <2>8. Ahead(r, a, b)
    BY <2>5, <2>6, <2>7 DEF Ahead
  <2> QED BY <2>8 DEF r
<1> QED BY <1>1, <1>2

(***************************************************************************)
(* Whoever is on a list stands ahead of a task that is linked at its tail. *)
(***************************************************************************)
LEMMA TailIsBehind ==
  ASSUME NEW l \in Seq(Task), NEW t \in Task
  PROVE  /\ Last(Append(l, t)) = t
         /\ \A a \in ToSet(l) : Ahead(Append(l, t), a, t)
         /\ \A a, b : Ahead(l, a, b) => Ahead(Append(l, t), a, b)
<1> DEFINE r == Append(l, t)
<1>1. /\ r \in Seq(Task) /\ Len(r) = Len(l) + 1 /\ Len(l) \in Nat
      /\ \A i \in 1..Len(l) : r[i] = l[i]
      /\ r[Len(l)+1] = t
  BY AppendProperties
<1>2. DOMAIN r = 1..(Len(l)+1) /\ DOMAIN l = 1..Len(l)
  BY <1>1
<1> HIDE DEF r
<1>3. Last(r) = t
  BY <1>1 DEF Last
<1>4. ASSUME NEW a \in ToSet(l) PROVE Ahead(r, a, t)
  <2>1. PICK i \in 1..Len(l) : l[i] = a
    BY <1>2 DEF ToSet
  <2>2. i \in DOMAIN r /\ Len(l)+1 \in DOMAIN r /\ i < Len(l)+1 /\ r[i] = a
    BY <1>1, <1>2, <2>1
  <2> QED BY <1>1, <2>2 DEF Ahead
<1>5. ASSUME NEW a, NEW b, Ahead(l, a, b) PROVE Ahead(r, a, b)
  <2>1. PICK i \in 1..Len(l), j \in 1..Len(l) : i < j /\ l[i] = a /\ l[j] = b
    BY <1>2, <1>5 DEF Ahead
  <2>2. i \in DOMAIN r /\ j \in DOMAIN r /\ r[i] = a /\ r[j] = b
    BY <1>1, <1>2, <2>1
  <2> QED BY <2>1, <2>2 DEF Ahead
<1> QED BY <1>3, <1>4, <1>5 DEF r

(***************************************************************************)
(* Such a function serves a list first come, first served.                 *)
(***************************************************************************)
LEMMA MovedIsFifo ==
  ASSUME NEW l \in Seq(Task), NoDup(l), NEW t \in Task, NEW r, Moved(l, r, t),
         NEW a \in ToSet(l) \cap ToSet(r), NEW b \in ToSet(r), a # b
  PROVE  /\ b \notin ToSet(l) => Ahead(r, a, b)
         /\ Ahead(l, a, b) => Ahead(r, a, b) \/ Last(r) = a
<1> DEFINE m == ListDel(l, t)
<1>1. m \in Seq(Task) /\ NoDup(m) /\ ToSet(m) = ToSet(l) \ {t}
  BY ListDelProperties
<1>2. a # t /\ b # t /\ Ahead(l, a, b) => Ahead(m, a, b)
  BY UnlinkKeepsOrder
<1> HIDE DEF m
<1>3. CASE r = l
  BY <1>3
<1>4. CASE r = m
  BY <1>1, <1>2, <1>4
<1>5. CASE r = Append(m, t)
  <2>1. ToSet(r) = ToSet(m) \cup {t}
    BY <1>1, <1>5, ListAddTailProperties DEF ListAddTail
  <2>2. CASE a = t
    BY <1>1, <1>5, <2>1, <2>2, TailIsBehind
  <2>3. CASE a # t
    BY <1>1, <1>2, <1>5, <2>1, <2>3, TailIsBehind
  <2> QED BY <2>2, <2>3
<1> QED BY <1>3, <1>4, <1>5 DEF Moved, m

LEMMA MovesAreFifo ==
  ASSUME KInv(sch), NEW t \in Task, OneMoves(sch, sch', t)
  PROVE  FifoStep
<1>1. \A p \in Prio : sch.ready[p] \in Seq(Task) /\ NoDup(sch.ready[p])
  BY SchFields DEF KInv, ListsExact
<1> QED BY <1>1, MovedIsFifo DEF OneMoves, FifoStep

(***************************************************************************)
(* What the primitives do to the ready lists.                              *)
(***************************************************************************)
LEMMA ListsOfPrimitives ==
  ASSUME NEW k \in SchType, NEW t \in Task
  PROVE  /\ switch_task(k).ready = k.ready
         /\ \A p \in Prio : Unlink(k, t).ready[p] = ListDel(k.ready[p], t)
         /\ \A p \in Prio : add_task_to_ready_list(k, t).ready[p]
                              \in {k.ready[p], Append(k.ready[p], t)}
         /\ \A s : SetStatus(k, t, s).ready = k.ready
<1>1. k.ready \in [Prio -> Seq(Task)]
  BY SchFields
<1>2. add_task_to_ready_list(k, t).ready
        = [k.ready EXCEPT ![k.prio[t]] = Append(k.ready[k.prio[t]], t)]
  BY DEF add_task_to_ready_list, ListAddTail, SchType
<1>3. \A p \in Prio : add_task_to_ready_list(k, t).ready[p]
                        \in {k.ready[p], Append(k.ready[p], t)}
  BY <1>1, <1>2
<1>4. Unlink(k, t).ready = [p \in Prio |-> ListDel(k.ready[p], t)]
  BY DEF Unlink, SchType
<1>5. \A p \in Prio : Unlink(k, t).ready[p] = ListDel(k.ready[p], t)
  BY <1>4
<1> QED BY <1>3, <1>5 DEF switch_task, SetStatus, SchType

LEMMA RelinkMoves ==
  ASSUME NEW k, KInv(k), NEW t \in Task
  PROVE  /\ OneMoves(k, add_task_to_ready_list(Unlink(k, t), t), t)
         /\ add_task_to_ready_list(Unlink(k, t), t) \in SchType
<1> DEFINE u == Unlink(k, t)
<1>1. k \in SchType /\ u \in SchType
  BY AgreementSplits, UnlinkLoosens DEF KInv, Loose, OthersExact
<1>2. \A p \in Prio : u.ready[p] = ListDel(k.ready[p], t)
  BY <1>1, ListsOfPrimitives
<1> HIDE DEF u
<1>3. \A p \in Prio : add_task_to_ready_list(u, t).ready[p]
                        \in {ListDel(k.ready[p], t), Append(ListDel(k.ready[p], t), t)}
  BY <1>1, <1>2, ListsOfPrimitives
<1>4. add_task_to_ready_list(u, t) \in SchType
  BY RelinkAgrees DEF KInv, u
<1> QED BY <1>3, <1>4 DEF OneMoves, Moved, u

LEMMA ResumeMoves ==
  ASSUME NEW k, KInv(k), NEW t \in Task
  PROVE  OneMoves(k, resume(k, t), t) /\ resume(k, t) \in SchType
<1> DEFINE w == SetStatus(k, t, "wait")
           u == Unlink(w, t)
<1>1. k \in SchType /\ "wait" \in Status
  BY DEF KInv, Status
<1>2. OthersExact(w, t)
  BY <1>1, AgreementSplits, StatusOfOther
<1>3. w \in SchType /\ w.ready = k.ready
  BY <1>1, SetStatusFields
<1> HIDE DEF w
<1>4. u \in SchType
  BY <1>2, UnlinkLoosens DEF Loose, OthersExact
<1>5. \A p \in Prio : u.ready[p] = ListDel(k.ready[p], t)
  BY <1>3, ListsOfPrimitives
<1> HIDE DEF u
<1>6. \A p \in Prio : add_task_to_ready_list(u, t).ready[p]
                        \in {ListDel(k.ready[p], t), Append(ListDel(k.ready[p], t), t)}
  BY <1>4, <1>5, ListsOfPrimitives
<1>7. resume(k, t) = add_task_to_ready_list(u, t)
  BY DEF resume, u, w
<1>8. resume(k, t) \in SchType
  BY ResumeAgrees DEF KInv
<1> QED BY <1>6, <1>7, <1>8 DEF OneMoves, Moved

LEMMA DelMoves ==
  ASSUME NEW k \in SchType, NEW t \in Task
  PROVE  \A p \in Prio : del_task_to_ready_list(k, t).ready[p] = ListDel(k.ready[p], t)
<1>1. del_task_to_ready_list(k, t).ready = Unlink(k, t).ready
  BY DEF del_task_to_ready_list, Unlink, SchType
<1> QED BY <1>1, ListsOfPrimitives

LEMMA HangMoves ==
  ASSUME NEW k \in SchType, NEW t \in Task
  PROVE  OneMoves(k, hang(k, t), t)
<1> DEFINE w == SetStatus(k, t, "wait")
<1>1. w \in SchType /\ w.ready = k.ready
  BY SetStatusFields DEF Status
<1> HIDE DEF w
<1>2. hang(k, t) = del_task_to_ready_list(w, t)
  BY DEF hang, w
<1> QED BY <1>1, <1>2, DelMoves DEF OneMoves, Moved

LEMMA DeleteMoves ==
  ASSUME NEW k \in SchType, NEW t \in Task
  PROVE  OneMoves(k, delete(k, t), t)
<1> DEFINE d == IF k.status[t] \in Runnable THEN del_task_to_ready_list(k, t) ELSE k
<1>1. \A p \in Prio : d.ready[p] \in {k.ready[p], ListDel(k.ready[p], t)}
  BY DelMoves
<1>2. delete(k, t).ready = d.ready
  BY DEF delete, del_task_to_ready_list, Unlink, SchType
<1> QED BY <1>1, <1>2 DEF OneMoves, Moved

LEMMA YieldMoves ==
  ASSUME NEW k, KInv(k), k.cur \in Task
  PROVE  OneMoves(k, task_yield_cpu(k), k.cur)
<1> DEFINE t == k.cur
           q == k.prio[t]
           l == Append(ListDel(k.ready[q], t), t)
           u == Unlink(k, t)
           v == [u EXCEPT !.ready[q] = l]
<1>1. k \in SchType /\ u \in SchType /\ q \in Prio
  BY AgreementSplits, UnlinkLoosens, SchFields DEF KInv, Loose, OthersExact
<1>2. \A p \in Prio : u.ready[p] = ListDel(k.ready[p], t)
  BY <1>1, ListsOfPrimitives
<1>3. switch_task(v).ready = v.ready
  BY <1>1 DEF switch_task, SchType
<1>4. v.ready = [u.ready EXCEPT ![q] = l]
  BY <1>1 DEF SchType
<1>5. u.ready \in [Prio -> Seq(Task)]
  BY <1>1, SchFields
<1>6. task_yield_cpu(k) \in {k, switch_task(v)}
  BY DEF task_yield_cpu, ListAddTail
<1> HIDE DEF u, v
<1>7. \A p \in Prio : v.ready[p] \in {ListDel(k.ready[p], t), Append(ListDel(k.ready[p], t), t)}
  BY <1>1, <1>2, <1>4, <1>5
<1> QED BY <1>3, <1>6, <1>7 DEF OneMoves, Moved

(***************************************************************************)
(* Tasks of one priority are served first come, first served, for any      *)
(* tasks and priorities: no step moves a task behind another one unless it *)
(* links that task at the tail (kernel/sch.c, kernel/task.c).              *)
(***************************************************************************)
THEOREM FirstComeFirstServed == Spec => FifoService
<1>1. ASSUME Inv, [Next]_vars PROVE FifoStep
  <2> USE <1>1
  <2>1. sch \in SchType /\ KInv(sch)
    BY DEF Inv, KInv
  <2>2. ASSUME sch'.ready = sch.ready PROVE FifoStep
    <3>1. OneMoves(sch, sch', Idle)
      BY <2>2 DEF OneMoves, Moved
    <3> QED BY <2>1, <3>1, SchedAssumption, MovesAreFifo
  <2>3. ASSUME NEW t \in Task, NEW k, OneMoves(sch, k, t), sch'.ready = k.ready PROVE FifoStep
    <3>1. OneMoves(sch, sch', t)
      BY <2>3 DEF OneMoves
    <3> QED BY <2>1, <3>1, MovesAreFifo
  <2>4. CASE Start \/ IsrSwitch \/ TickCount \/ IdleFree \/ UNCHANGED vars
    BY <2>1, <2>2, <2>4
    DEF Start, sch_start, IsrSwitch, switch_task, TickCount, IdleFree, SetStatus, vars, SchType
  <2>5. CASE TickYield
    <3>1. sch.cur \in Task
      BY <2>1, <2>5, SchFields DEF Inv, BootQuiet, Booting, TickYield
    <3> QED BY <2>1, <2>3, <2>5, <3>1, YieldMoves DEF TickYield
  <2>6. CASE TickTimers
    <3>1. CASE ~HeadIsDue(tm)
      BY <2>2, <2>6, <3>1 DEF TickTimers
    <3>2. CASE HeadIsDue(tm)
      <4> DEFINE t == Head(tm.list)
                 r == add_task_to_ready_list(Unlink(sch, t), t)
      <4>1. t \in Task
        BY <3>2, SchedAssumption DEF Inv, TypeOK, TimerType, HeadIsDue
      <4>2. sch' = switch_task(r)
        BY <2>6, <3>2 DEF TickTimers
      <4>3. OneMoves(sch, r, t) /\ r \in SchType
        BY <2>1, <4>1, RelinkMoves
      <4> HIDE DEF r, t
      <4>4. sch'.ready = r.ready
        BY <4>1, <4>2, <4>3, ListsOfPrimitives
      <4> QED BY <2>3, <4>1, <4>3, <4>4
    <3> QED BY <3>1, <3>2
  <2>7. CASE IdlePop
    <3> DEFINE t == Head(sch.close)
    <3>1. t \in Task /\ sch' = Unlink(sch, t)
      BY <2>1, <2>7, SchFields DEF IdlePop
    <3> HIDE DEF t
    <3>2. OneMoves(sch, sch', t)
      BY <2>1, <3>1, ListsOfPrimitives DEF OneMoves, Moved
    <3> QED BY <2>1, <3>1, <3>2, MovesAreFifo
  <2>8. ASSUME NEW t \in Task, TaskCreate(t) PROVE FifoStep
    BY <2>1, <2>2, <2>8 DEF TaskCreate, SchType
  <2>9. ASSUME NEW t \in Task, TaskReady(t) PROVE FifoStep
    <3>1. sch' = add_task_to_ready_list(sch, t) /\ sch.status[t] \notin Runnable
      BY <2>9 DEF TaskReady, Runnable
    <3>2. \A p \in Prio : ListDel(sch.ready[p], t) = sch.ready[p]
      BY <2>1, <3>1, SchFields, ListDelAbsent DEF KInv, ListsExact
    <3>3. OneMoves(sch, sch', t)
      BY <2>1, <3>1, <3>2, ListsOfPrimitives DEF OneMoves, Moved
    <3> QED BY <2>1, <3>3, MovesAreFifo
  <2>10. ASSUME NEW t \in Task, IsrWake(t) PROVE FifoStep
    <3>1. OneMoves(sch, resume(sch, t), t) /\ resume(sch, t) \in SchType
      BY <2>1, ResumeMoves
    <3>2. sch'.ready = resume(sch, t).ready
      BY <2>10, <3>1, ListsOfPrimitives DEF IsrWake
    <3> QED BY <2>3, <3>1, <3>2
  <2>11. ASSUME NEW t \in Task, TaskStep(t) PROVE FifoStep
    <3>1. CASE TaskExit(t)
      BY <2>1, <2>3, <3>1, DeleteMoves DEF TaskExit
    <3>2. CASE TaskHang(t) \/ \E n \in SleepTicks : TaskSleep(t, n)
      BY <2>1, <2>3, <3>2, HangMoves DEF TaskHang, TaskSleep
    <3>3. CASE \E u \in Task : TaskWake(t, u)
      BY <2>1, <2>3, <3>3, ResumeMoves DEF TaskWake
    <3>4. CASE TaskEnlist(t) \/ TaskSwitch(t) \/ SchLock(t) \/ SchUnlock(t) \/ ClearFlag(t)
      BY <2>1, <2>2, <3>4 DEF TaskEnlist, TaskSwitch, SchLock, SchUnlock, ClearFlag, SchType
    <3>5. CASE CallSwitch(t)
      BY <2>1, <2>2, <3>5, ListsOfPrimitives DEF CallSwitch
    <3> QED BY <2>11, <3>1, <3>2, <3>3, <3>4, <3>5 DEF TaskStep
  <2> QED
    BY <2>4, <2>5, <2>6, <2>7, <2>8, <2>9, <2>10, <2>11 DEF Next, Tick
<1> QED BY <1>1, SpecInv, PTL DEF Spec, FifoService

=============================================================================
