---------------------------- MODULE MutexProofs ----------------------------
(***************************************************************************)
(* The mutex and the message queue, for any tasks, priorities, users of    *)
(* the mutex, queue owners, blocks and timeouts.                           *)
(*                                                                         *)
(* First part: the primitives of SchOps keep the lists and the states of   *)
(* all tasks in agreement but for those that a task_resume is on its way   *)
(* to, whose state may be anything (Placed, Kern).                         *)
(*                                                                         *)
(* Second part: the mutex.  Who waits for it stays on its list, so it is   *)
(* not free as long as somebody waits (Locks); who sleeps in mutex_lock    *)
(* and has not been given the mutex is on no list and has no timer, so     *)
(* that nothing but a wake-up behind the mutex's back, which disturbed     *)
(* notes, gets it past task_hang (Safe).                                   *)
(*                                                                         *)
(* Third part: the blocks and the numbers of the messages (Pool, Numbers). *)
(*                                                                         *)
(* Fourth part: the queue on the mutex.  A handler that finds the mutex    *)
(* free leaves it free; one that finds it taken is noted as well.          *)
(***************************************************************************)
EXTENDS MsgQueue, SchedProofs, FiniteSetTheorems

-----------------------------------------------------------------------------
(***************************************************************************)
(* The primitives of SchOps below the mutex, for any priorities: they keep *)
(* the lists and the states of all tasks in agreement but for those in R,  *)
(* which task_resume is on its way to.                                     *)
(***************************************************************************)
On(k, u) == \E p \in Prio : u \in ToSet(k.ready[p])

Fits(k, u) == \A p \in Prio : u \in ToSet(k.ready[p]) <=> k.status[u] \in Runnable /\ k.prio[u] = p

Placed(k, R) ==
  /\ k \in SchType /\ k.close = <<>> /\ k.nest = 0
  /\ \A p \in Prio : NoDup(k.ready[p]) /\ \A t \in ToSet(k.ready[p]) : k.prio[t] = p
  /\ \A t \in Task \ R : Fits(k, t)
  /\ OneRunning(k)

LEMMA PlacedFields ==
  ASSUME NEW k, NEW R, Placed(k, R)
  PROVE  /\ k \in SchType /\ k.close = <<>> /\ k.nest = 0
         /\ k.ready \in [Prio -> Seq(Task)] /\ k.mask \in SUBSET Prio
         /\ k.status \in [Task -> Status] /\ k.prio \in [Task -> Prio]
         /\ k.cur \in Task \cup {NoTask}
         /\ \A p \in Prio : k.ready[p] \in Seq(Task) /\ NoDup(k.ready[p])
BY SchFields DEF Placed

LEMMA PlacedMore ==
  ASSUME NEW k, NEW R, NEW S, Placed(k, R), R \subseteq S
  PROVE  Placed(k, S)
BY DEF Placed

\* A task that is linked is linked in the list of its priority.
LEMMA LinkedInPlace ==
  ASSUME NEW k, NEW R, Placed(k, R), NEW t \in Task
  PROVE  /\ On(k, t) <=> t \in ToSet(k.ready[k.prio[t]])
         /\ \A p \in Prio : t \in ToSet(k.ready[p]) <=> On(k, t) /\ p = k.prio[t]
<1>1. k.prio[t] \in Prio
  BY PlacedFields
<1>2. \A p \in Prio : t \in ToSet(k.ready[p]) => k.prio[t] = p
  BY DEF Placed
<1> QED BY <1>1, <1>2 DEF On

LEMMA Settles ==
  ASSUME NEW k, NEW R, Placed(k, R), NEW t \in Task, On(k, t) <=> k.status[t] \in Runnable
  PROVE  Placed(k, R \ {t})
<1>1. Fits(k, t)
  BY LinkedInPlace DEF Fits
<1> QED BY <1>1 DEF Placed

LEMMA EmptyList ==
  /\ NoDup(<<>>) /\ ToSet(<<>>) = {} /\ <<>> \in Seq(Task)
  /\ \A t : ListDel(<<>>, t) = <<>>
<1>1. NoDup(<<>>) /\ ToSet(<<>>) = {} /\ <<>> \in Seq(Task)
  BY DEF NoDup, ToSet
<1>2. ASSUME NEW t PROVE ListDel(<<>>, t) = <<>>
  BY <1>1, ListDelAbsent
<1> QED BY <1>1, <1>2

LEMMA UnlinkPlaces ==
  ASSUME NEW k, NEW R, Placed(k, R), NEW t \in Task
  PROVE  LET u == Unlink(k, t)
         IN  /\ Placed(u, R \cup {t})
             /\ \A v : On(u, v) <=> On(k, v) /\ v # t
             /\ u.status = k.status /\ u.prio = k.prio /\ u.mask = k.mask
             /\ u.cur = k.cur /\ u.nest = k.nest
             /\ \A p \in Prio : u.ready[p] = ListDel(k.ready[p], t)
<1> DEFINE u == Unlink(k, t)
<1>1. \A p \in Prio : /\ ListDel(k.ready[p], t) \in Seq(Task)
                      /\ NoDup(ListDel(k.ready[p], t))
                      /\ ToSet(ListDel(k.ready[p], t)) = ToSet(k.ready[p]) \ {t}
  BY PlacedFields, ListDelProperties
<1>2. ListDel(k.close, t) = <<>> /\ <<>> \in Seq(Task)
  BY PlacedFields, EmptyList
<1>3. /\ u \in SchType
      /\ u.ready = [p \in Prio |-> ListDel(k.ready[p], t)]
      /\ u.close = ListDel(k.close, t)
      /\ u.status = k.status /\ u.prio = k.prio /\ u.mask = k.mask
      /\ u.cur = k.cur /\ u.nest = k.nest
  <2>1. ListDel(k.close, t) \in Seq(Task) /\ k \in SchType
    BY <1>2, PlacedFields
  <2> QED BY <1>1, <2>1 DEF SchType, Unlink
<1> HIDE DEF u
<1>4. \A p \in Prio : /\ u.ready[p] = ListDel(k.ready[p], t) /\ NoDup(u.ready[p])
                      /\ ToSet(u.ready[p]) = ToSet(k.ready[p]) \ {t}
  BY <1>1, <1>3
<1>5. \A v : On(u, v) <=> On(k, v) /\ v # t
  BY <1>4 DEF On
<1>6. \A v \in Task \ (R \cup {t}) : Fits(u, v)
  BY <1>3, <1>4 DEF Placed, Fits
<1>7. OneRunning(u)
  BY <1>3 DEF Placed, OneRunning
<1>8. u.nest = 0
  BY <1>3 DEF Placed
<1>9. ASSUME NEW p \in Prio, NEW v \in ToSet(u.ready[p]) PROVE u.prio[v] = p
  <2>1. v \in ToSet(k.ready[p])
    BY <1>4
  <2> QED BY <2>1, <1>3 DEF Placed
<1>10. Placed(u, R \cup {t})
  BY <1>2, <1>3, <1>4, <1>6, <1>7, <1>8, <1>9 DEF Placed
<1> QED BY <1>3, <1>4, <1>5, <1>10 DEF u

LEMMA StatusPlaces ==
  ASSUME NEW k, NEW R, Placed(k, R), NEW t \in Task, NEW s \in Status \ {"running"}
  PROVE  LET m == SetStatus(k, t, s)
         IN  /\ Placed(m, R \cup {t})
             /\ \A v : On(m, v) <=> On(k, v)
             /\ m.status = [k.status EXCEPT ![t] = s]
             /\ m.ready = k.ready /\ m.mask = k.mask
             /\ m.prio = k.prio /\ m.cur = k.cur /\ m.nest = k.nest
<1> DEFINE m == SetStatus(k, t, s)
<1>1. /\ m \in SchType /\ m.status = [k.status EXCEPT ![t] = s]
      /\ m.ready = k.ready /\ m.mask = k.mask /\ m.close = k.close
      /\ m.prio = k.prio /\ m.cur = k.cur /\ m.nest = k.nest
  BY PlacedFields, SetStatusFields
<1> HIDE DEF m
<1>2. \A v \in Task : m.status[v] = IF v = t THEN s ELSE k.status[v]
  BY <1>1, PlacedFields
<1>3. \A v \in Task \ (R \cup {t}) : Fits(m, v)
  BY <1>1, <1>2 DEF Placed, Fits
<1>4. OneRunning(m)
  BY <1>1, <1>2 DEF Placed, OneRunning
<1>5. Placed(m, R \cup {t})
  BY <1>1, <1>3, <1>4 DEF Placed
<1> QED BY <1>1, <1>5 DEF On, m

LEMMA AddList ==
  ASSUME NEW k \in SchType, NEW t \in Task
  PROVE  \A p \in Prio : add_task_to_ready_list(k, t).ready[p] =
           IF p = k.prio[t] THEN ListAddTail(k.ready[p], t) ELSE k.ready[p]
<1> DEFINE q == k.prio[t]
           l == ListAddTail(k.ready[q], t)
           a == add_task_to_ready_list(k, t)
<1>1. q \in Prio /\ k.ready \in [Prio -> Seq(Task)]
  BY SchFields
<1>2. a.ready = [k.ready EXCEPT ![q] = l]
  BY DEF add_task_to_ready_list, SchType
<1> HIDE DEF a
<1>3. \A p \in Prio : a.ready[p] = IF p = q THEN l ELSE k.ready[p]
  <2> HIDE DEF q, l
  <2> QED BY <1>1, <1>2
<1> QED BY <1>3 DEF a

LEMMA AddPlaces ==
  ASSUME NEW k, NEW R, Placed(k, R), NEW t \in Task, ~On(k, t)
  PROVE  LET a == add_task_to_ready_list(k, t)
         IN  /\ Placed(a, R \ {t})
             /\ \A v : On(a, v) <=> On(k, v) \/ v = t
             /\ a.status = [k.status EXCEPT ![t] = "ready"]
             /\ a.prio = k.prio /\ a.cur = k.cur
             /\ a.mask = k.mask \cup {InitPriority[t]}
             /\ \A p \in Prio : a.ready[p] = IF p = k.prio[t] THEN ListAddTail(k.ready[p], t)
                                                              ELSE k.ready[p]
<1> DEFINE a == add_task_to_ready_list(k, t)
           q == k.prio[t]
           l == ListAddTail(k.ready[q], t)
<1>1. q \in Prio /\ k.ready[q] \in Seq(Task) /\ NoDup(k.ready[q]) /\ t \notin ToSet(k.ready[q])
  BY PlacedFields DEF On
<1>2. /\ l \in Seq(Task) /\ l # <<>> /\ NoDup(l)
      /\ ToSet(l) = ToSet(k.ready[q]) \cup {t}
  BY <1>1, ListAddTailProperties
<1>3. OffsetMask(t) = {InitPriority[t]} /\ InitPriority[t] \in Prio /\ "ready" \in Status
  BY SchOpsAssumption DEF OffsetMask, Status, Prio
<1> DEFINE o == InitPriority[t]
<1>4. /\ a \in SchType
      /\ a.status = [k.status EXCEPT ![t] = "ready"]
      /\ a.ready = [k.ready EXCEPT ![q] = l]
      /\ a.mask = k.mask \cup {InitPriority[t]}
      /\ a.close = k.close /\ a.prio = k.prio /\ a.cur = k.cur /\ a.nest = k.nest
  <2>1. OffsetMask(t) = {o} /\ o \in Prio /\ "ready" \in Status /\ k \in SchType
    BY <1>3, PlacedFields
  <2> HIDE DEF l, q, o
  <2>2. a = [k EXCEPT !.status[t] = "ready", !.ready[q] = l, !.mask = k.mask \cup {o}]
    BY <2>1 DEF add_task_to_ready_list, l, q
  <2>3. a = [ready |-> [k.ready EXCEPT ![q] = l], mask |-> k.mask \cup {o},
             close |-> k.close, status |-> [k.status EXCEPT ![t] = "ready"],
             prio |-> k.prio, cur |-> k.cur, nest |-> k.nest]
    BY <2>1, <2>2 DEF SchType
  <2> HIDE DEF a
  <2>4. /\ a \in SchType
        /\ a.status = [k.status EXCEPT ![t] = "ready"]
        /\ a.ready = [k.ready EXCEPT ![q] = l]
        /\ a.mask = k.mask \cup {o}
        /\ a.close = k.close /\ a.prio = k.prio /\ a.cur = k.cur /\ a.nest = k.nest
    BY <2>1, <2>3, <1>1, <1>2, SchFields DEF SchType
  <2> QED BY <2>4 DEF o
<1> HIDE DEF a, l
<1>5. \A p \in Prio : a.ready[p] = IF p = q THEN l ELSE k.ready[p]
  BY <1>1, <1>4, PlacedFields
<1>6. \A p \in Prio : ToSet(a.ready[p]) = IF p = q THEN ToSet(k.ready[p]) \cup {t}
                                                   ELSE ToSet(k.ready[p])
  BY <1>2, <1>5
<1>7. \A v : On(a, v) <=> On(k, v) \/ v = t
  BY <1>1, <1>6 DEF On
<1>8. \A v \in Task : a.status[v] = IF v = t THEN "ready" ELSE k.status[v]
  BY <1>4, PlacedFields
<1>9. ASSUME NEW v \in Task \ (R \ {t}) PROVE Fits(a, v)
  <2>1. CASE v = t
    <3>1. \A p \in Prio : t \in ToSet(a.ready[p]) <=> p = q
      BY <1>1, <1>6 DEF On
    <3> QED BY <2>1, <3>1, <1>4, <1>8 DEF Fits, Runnable
  <2>2. CASE v # t
    <3>1. Fits(k, v)
      BY <2>2 DEF Placed
    <3>2. ASSUME NEW p \in Prio PROVE v \in ToSet(a.ready[p]) <=> v \in ToSet(k.ready[p])
      BY <2>2, <1>6
    <3>3. a.status[v] = k.status[v] /\ a.prio[v] = k.prio[v]
      BY <2>2, <1>4, <1>8
    <3> QED BY <3>1, <3>2, <3>3 DEF Fits
  <2> QED BY <2>1, <2>2
<1>10. OneRunning(a)
  BY <1>4, <1>8 DEF Placed, OneRunning
<1>11. \A p \in Prio : NoDup(a.ready[p]) /\ \A v \in ToSet(a.ready[p]) : a.prio[v] = p
  BY <1>2, <1>4, <1>5, <1>6 DEF Placed
<1>12. Placed(a, R \ {t})
  BY <1>4, <1>9, <1>10, <1>11 DEF Placed
<1> QED BY <1>4, <1>5, <1>7, <1>12 DEF a, l

LEMMA DelPlaces ==
  ASSUME NEW k, NEW R, Placed(k, R), NEW t \in Task
  PROVE  LET d == del_task_to_ready_list(k, t)
         IN  /\ Placed(d, R \cup {t})
             /\ \A v : On(d, v) <=> On(k, v) /\ v # t
             /\ d.status = k.status /\ d.prio = k.prio /\ d.cur = k.cur
<1> DEFINE u == Unlink(k, t)
           m == IF u.ready[k.prio[t]] = <<>> THEN k.mask \ OffsetMask(t) ELSE k.mask
           d == [u EXCEPT !.mask = m]
<1>1. /\ Placed(u, R \cup {t}) /\ \A v : On(u, v) <=> On(k, v) /\ v # t
      /\ u.status = k.status /\ u.prio = k.prio /\ u.cur = k.cur
  BY UnlinkPlaces
<1>2. u \in SchType /\ m \in SUBSET Prio
  BY <1>1, PlacedFields
<1> HIDE DEF u, m
<1>3. /\ d \in SchType /\ d.ready = u.ready /\ d.close = u.close /\ d.status = u.status
      /\ d.prio = u.prio /\ d.cur = u.cur /\ d.nest = u.nest
  BY <1>2 DEF SchType
<1> HIDE DEF d
<1>4. Placed(d, R \cup {t}) /\ \A v : On(d, v) <=> On(u, v)
  BY <1>1, <1>3 DEF Placed, Fits, OneRunning, On
<1>5. d = del_task_to_ready_list(k, t)
  BY DEF d, u, m, del_task_to_ready_list
<1> QED BY <1>1, <1>3, <1>4, <1>5

LEMMA HangPlaces ==
  ASSUME NEW k, NEW R, Placed(k, R), NEW t \in Task
  PROVE  LET h == hang(k, t)
         IN  /\ Placed(h, R) /\ \A v : On(h, v) <=> On(k, v) /\ v # t
             /\ h.prio = k.prio /\ h.cur = k.cur
<1> DEFINE m == SetStatus(k, t, "wait")
           h == hang(k, t)
<1>1. /\ Placed(m, R \cup {t}) /\ \A v : On(m, v) <=> On(k, v)
      /\ m.status = [k.status EXCEPT ![t] = "wait"] /\ m.prio = k.prio /\ m.cur = k.cur
  BY StatusPlaces DEF Status
<1> HIDE DEF m
<1>2. /\ Placed(h, R \cup {t}) /\ \A v : On(h, v) <=> On(m, v) /\ v # t
      /\ h.status = m.status /\ h.prio = m.prio /\ h.cur = m.cur
  BY <1>1, DelPlaces DEF hang, m
<1>3. h.status[t] = "wait"
  BY <1>1, <1>2, PlacedFields
<1>4. Placed(h, (R \cup {t}) \ {t})
  BY <1>2, <1>3, Settles DEF Runnable
<1> QED BY <1>1, <1>2, <1>4, PlacedMore

LEMMA ResumePlaces ==
  ASSUME NEW k, NEW R, Placed(k, R), NEW t \in Task
  PROVE  LET r == resume(k, t)
         IN  /\ Placed(r, R) /\ \A v : On(r, v) <=> On(k, v) \/ v = t
             /\ r.prio = k.prio /\ r.cur = k.cur
             /\ r.mask = k.mask \cup {InitPriority[t]}
             /\ \A p \in Prio : r.ready[p] = IF p = k.prio[t]
                                               THEN ListAddTail(ListDel(k.ready[p], t), t)
                                               ELSE ListDel(k.ready[p], t)
<1> DEFINE m == SetStatus(k, t, "wait")
           u == Unlink(m, t)
           r == add_task_to_ready_list(u, t)
<1>0. "wait" \in Status \ {"running"}
  BY DEF Status
<1>1. /\ Placed(m, R \cup {t}) /\ \A v : On(m, v) <=> On(k, v)
      /\ m.ready = k.ready /\ m.prio = k.prio /\ m.cur = k.cur /\ m.mask = k.mask
  <2>1. Placed(m, R \cup {t}) /\ \A v : On(m, v) <=> On(k, v)
    BY <1>0, StatusPlaces
  <2>2. m.ready = k.ready /\ m.prio = k.prio /\ m.cur = k.cur /\ m.mask = k.mask
    <3>1. k \in SchType /\ "wait" \in Status
      BY <1>0, PlacedFields
    <3> QED BY <3>1 DEF SetStatus, SchType
  <2> QED BY <2>1, <2>2
<1> HIDE DEF m
<1>2. /\ Placed(u, R \cup {t}) /\ \A v : On(u, v) <=> On(m, v) /\ v # t
      /\ u.prio = m.prio /\ u.cur = m.cur /\ u.mask = m.mask
      /\ \A p \in Prio : u.ready[p] = ListDel(m.ready[p], t)
  <2>1. Placed(u, (R \cup {t}) \cup {t}) /\ (R \cup {t}) \cup {t} \subseteq R \cup {t}
    BY <1>1, UnlinkPlaces
  <2> QED BY <2>1, <1>1, UnlinkPlaces, PlacedMore
<1> HIDE DEF u
<1>3. /\ Placed(r, (R \cup {t}) \ {t}) /\ \A v : On(r, v) <=> On(u, v) \/ v = t
      /\ r.status = [u.status EXCEPT ![t] = "ready"]
      /\ r.prio = u.prio /\ r.cur = u.cur
      /\ r.mask = u.mask \cup {InitPriority[t]}
      /\ \A p \in Prio : r.ready[p] = IF p = u.prio[t] THEN ListAddTail(u.ready[p], t)
                                                       ELSE u.ready[p]
  <2>1. ~On(u, t) /\ Placed(u, R \cup {t})
    BY <1>2
  <2>2. /\ Placed(r, (R \cup {t}) \ {t}) /\ \A v : On(r, v) <=> On(u, v) \/ v = t
        /\ r.status = [u.status EXCEPT ![t] = "ready"]
    BY <2>1, AddPlaces
  <2>3. r.prio = u.prio /\ r.cur = u.cur
      /\ r.mask = u.mask \cup {InitPriority[t]}
    BY <2>1, AddPlaces
  <2>4. \A p \in Prio : r.ready[p] = IF p = u.prio[t] THEN ListAddTail(u.ready[p], t)
                                                       ELSE u.ready[p]
    BY <2>1, PlacedFields, AddList
  <2> QED BY <2>2, <2>3, <2>4
<1>4. r = resume(k, t)
  BY DEF r, u, m, resume
<1>5. Placed(r, R)
  BY <1>3, PlacedMore
<1> HIDE DEF r
<1>6. r.prio = k.prio /\ r.cur = k.cur /\ r.mask = k.mask \cup {InitPriority[t]}
  BY <1>1, <1>2, <1>3
<1>7. \A v : On(r, v) <=> On(k, v) \/ v = t
  BY <1>1, <1>2, <1>3
<1>8. \A p \in Prio : r.ready[p] = IF p = k.prio[t] THEN ListAddTail(ListDel(k.ready[p], t), t)
                                                    ELSE ListDel(k.ready[p], t)
  BY <1>1, <1>2, <1>3
<1> QED BY <1>4, <1>5, <1>6, <1>7, <1>8

LEMMA SetPrioPlaces ==
  ASSUME NEW k, NEW R, Placed(k, R), NEW t \in Task, NEW q \in Prio
  PROVE  LET s == task_set_prio(k, t, q)
         IN  /\ Placed(s, R) /\ \A v : On(s, v) <=> On(k, v) \/ v = t
             /\ s.prio = [k.prio EXCEPT ![t] = q] /\ s.cur = k.cur
<1> DEFINE d == del_task_to_ready_list(k, t)
           m == [d EXCEPT !.prio = [d.prio EXCEPT ![t] = q]]
           s == add_task_to_ready_list(m, t)
<1>1. /\ Placed(d, R \cup {t}) /\ \A v : On(d, v) <=> On(k, v) /\ v # t
      /\ d.prio = k.prio /\ d.cur = k.cur
  BY DelPlaces
<1> HIDE DEF d
<1>2. d \in SchType /\ d.prio \in [Task -> Prio]
  BY <1>1, PlacedFields
<1>3. /\ m \in SchType /\ m.ready = d.ready /\ m.close = d.close /\ m.status = d.status
      /\ m.prio = [d.prio EXCEPT ![t] = q] /\ m.cur = d.cur /\ m.nest = d.nest
  BY <1>2 DEF SchType
<1>4. s = task_set_prio(k, t, q)
  BY DEF s, m, d, task_set_prio
<1> HIDE DEF m
<1>5. \A v : On(m, v) <=> On(d, v)
  BY <1>3 DEF On
<1>6. \A v \in Task : v # t => m.prio[v] = d.prio[v]
  BY <1>2, <1>3
<1>7. Placed(m, R \cup {t})
  <2>1. \A v \in Task \ (R \cup {t}) : Fits(m, v)
    BY <1>1, <1>3, <1>6 DEF Placed, Fits
  <2>2. ASSUME NEW p \in Prio, NEW v \in ToSet(m.ready[p]) PROVE m.prio[v] = p
    <3>1. v # t /\ v \in ToSet(d.ready[p])
      BY <1>1, <1>3, <2>2 DEF On
    <3>2. v \in Task
      BY <3>1, <1>1, PlacedFields DEF ToSet
    <3> QED BY <3>1, <3>2, <1>1, <1>6 DEF Placed
  <2>3. OneRunning(m)
    BY <1>1, <1>3 DEF Placed, OneRunning
  <2> QED BY <1>1, <1>3, <2>1, <2>2, <2>3 DEF Placed
<1>8. /\ Placed(s, (R \cup {t}) \ {t}) /\ \A v : On(s, v) <=> On(m, v) \/ v = t
      /\ s.prio = m.prio /\ s.cur = m.cur
  <2>1. ~On(m, t)
    BY <1>1, <1>5
  <2> QED BY <1>7, <2>1, AddPlaces
<1> HIDE DEF s
<1>9. Placed(s, R)
  BY <1>8, PlacedMore
<1> QED BY <1>1, <1>3, <1>4, <1>5, <1>8, <1>9

(***************************************************************************)
(* switch_task and its callers, where there is a task behind the first bit *)
(* of the bitmap.                                                          *)
(***************************************************************************)
LEMMA PickListed ==
  ASSUME NEW k \in SchType, PickIsTask(k)
  PROVE  NextTask(k) \in Task /\ On(k, NextTask(k))
<1> DEFINE m == Min(k.mask)
           l == k.ready[m]
<1>1. k.mask \in SUBSET Nat /\ k.mask # {} /\ k.mask \subseteq Prio
  BY SchFields DEF PickIsTask, Prio
<1>2. m \in Prio
  BY <1>1, MinProperties
<1>3. l \in Seq(Task) /\ l # <<>>
  BY <1>2, SchFields DEF PickIsTask
<1> HIDE DEF m
<1>4. Head(l) \in ToSet(l) /\ Head(l) \in Task
  <2> HIDE DEF l
  <2>1. Len(l) \in Nat \ {0} /\ Head(l) = l[1] /\ l[1] \in Task
    BY <1>3
  <2> QED BY <2>1 DEF ToSet
<1> QED BY <1>2, <1>4 DEF NextTask, On, m

LEMMA SwitchPlaces ==
  ASSUME NEW k, NEW R, Placed(k, R), PickIsTask(k)
  PROVE  LET s == switch_task(k)
         IN  /\ Placed(s, R) /\ \A v : On(s, v) <=> On(k, v)
             /\ s.prio = k.prio /\ s.cur \in Task /\ On(s, s.cur)
<1> DEFINE to == NextTask(k)
           s == switch_task(k)
           f == [t \in Task |->
                     IF t = to THEN "running"
                     ELSE IF t = k.cur /\ k.status[t] = "running" THEN "ready"
                     ELSE k.status[t]]
<1>1. k \in SchType /\ k.nest = 0 /\ k.close = <<>>
  BY DEF Placed
<1>2. to \in Task /\ On(k, to)
  BY <1>1, PickListed
<1>3. s = [k EXCEPT !.cur = to, !.status = f]
  BY <1>1 DEF switch_task
<1> HIDE DEF to, s
<1>4. /\ f \in [Task -> Status]
      /\ \A t \in Task : f[t] =
            IF t = to THEN "running"
            ELSE IF t = k.cur /\ k.status[t] = "running" THEN "ready"
            ELSE k.status[t]
  BY <1>1, SchFields DEF Status
<1> HIDE DEF f
<1>5. /\ s \in SchType /\ s.cur = to /\ s.status = f
      /\ s.ready = k.ready /\ s.mask = k.mask /\ s.close = k.close
      /\ s.prio = k.prio /\ s.nest = k.nest
  BY <1>1, <1>2, <1>3, <1>4 DEF SchType
<1>6. \A v : On(s, v) <=> On(k, v)
  BY <1>5 DEF On
<1>7. ASSUME NEW v \in Task \ R PROVE Fits(s, v)
  <2>1. Fits(k, v)
    BY DEF Placed
  <2>2. On(k, v) => k.status[v] \in Runnable
    BY <2>1 DEF Fits, On
  <2>3. s.status[v] \in Runnable <=> k.status[v] \in Runnable
    BY <1>2, <1>4, <1>5, <2>2 DEF Runnable
  <2> QED BY <1>5, <2>1, <2>3 DEF Fits
<1>8. OneRunning(s)
  BY <1>4, <1>5 DEF Placed, OneRunning
<1>9. Placed(s, R)
  BY <1>1, <1>5, <1>7, <1>8 DEF Placed
<1> QED BY <1>2, <1>5, <1>6, <1>9 DEF s

LEMMA StartPlaces ==
  ASSUME NEW k, NEW R, Placed(k, R), k.cur = NoTask, PickIsTask(k)
  PROVE  LET s == sch_start(k)
         IN  /\ Placed(s, R) /\ \A v : On(s, v) <=> On(k, v)
             /\ s.prio = k.prio /\ s.cur \in Task /\ On(s, s.cur)
<1> DEFINE to == NextTask(k)
           s == sch_start(k)
           f == [k.status EXCEPT ![to] = "running"]
<1>1. k \in SchType /\ k.nest = 0 /\ k.close = <<>>
  BY DEF Placed
<1>2. to \in Task /\ On(k, to)
  BY <1>1, PickListed
<1>3. s = [k EXCEPT !.cur = to, !.status = f]
  BY <1>1 DEF sch_start, SchType
<1> HIDE DEF to, s
<1>4. f \in [Task -> Status] /\ \A t \in Task : f[t] = IF t = to THEN "running" ELSE k.status[t]
  BY <1>1, <1>2, SchFields DEF Status
<1> HIDE DEF f
<1>5. /\ s \in SchType /\ s.cur = to /\ s.status = f
      /\ s.ready = k.ready /\ s.mask = k.mask /\ s.close = k.close
      /\ s.prio = k.prio /\ s.nest = k.nest
  BY <1>1, <1>2, <1>3, <1>4 DEF SchType
<1>6. \A v : On(s, v) <=> On(k, v)
  BY <1>5 DEF On
<1>7. ASSUME NEW v \in Task \ R PROVE Fits(s, v)
  <2>1. Fits(k, v)
    BY DEF Placed
  <2>2. On(k, v) => k.status[v] \in Runnable
    BY <2>1 DEF Fits, On
  <2>3. s.status[v] \in Runnable <=> k.status[v] \in Runnable
    BY <1>2, <1>4, <1>5, <2>2 DEF Runnable
  <2> QED BY <1>5, <2>1, <2>3 DEF Fits
<1>8. \A v \in Task : k.status[v] # "running"
  BY SchOpsAssumption DEF Placed, OneRunning
<1>9. OneRunning(s)
  BY <1>4, <1>5, <1>8 DEF OneRunning
<1>10. Placed(s, R)
  BY <1>1, <1>5, <1>7, <1>9 DEF Placed
<1> QED BY <1>2, <1>5, <1>6, <1>10 DEF s

\* A task added at its own bit leaves a task behind the first one.
LEMMA PickKept ==
  ASSUME NEW k \in SchType, NEW m \in SchType, PickIsTask(k), NEW q \in Prio,
         m.mask = k.mask \/ m.mask = k.mask \cup {q}, m.ready[q] # <<>>,
         \A p \in Prio \ {q} : m.ready[p] = k.ready[p]
  PROVE  PickIsTask(m)
<1> DEFINE a == Min(k.mask)
           b == Min(m.mask)
<1>1. /\ k.mask \in SUBSET Nat /\ k.mask # {} /\ k.mask \subseteq Prio
      /\ m.mask \in SUBSET Nat /\ m.mask # {} /\ m.mask \subseteq Prio
  BY SchFields DEF PickIsTask, Prio
<1>2. a \in k.mask /\ (\A n \in k.mask : a <= n) /\ b \in m.mask /\ \A n \in m.mask : b <= n
  BY <1>1, MinProperties
<1> HIDE DEF a, b
<1>3. k.ready[a] # <<>>
  BY DEF PickIsTask, a
<1>4. CASE b = q
  BY <1>1, <1>4 DEF PickIsTask, b
<1>5. CASE b # q
  <2>1. b \in k.mask /\ a \in m.mask
    BY <1>2, <1>5
  <2>2. a <= b /\ b <= a /\ a \in Nat /\ b \in Nat
    BY <1>1, <1>2, <2>1
  <2>3. a = b
    BY <2>2
  <2>4. b \in Prio \ {q}
    BY <1>1, <1>2, <1>5
  <2>5. m.ready[b] = k.ready[b]
    BY <2>4
  <2> QED BY <1>1, <1>3, <2>3, <2>5 DEF PickIsTask, b
<1> QED BY <1>4, <1>5

LEMMA YieldPlaces ==
  ASSUME NEW k, NEW R, Placed(k, R), k.cur \in Task, On(k, k.cur) => PickIsTask(k)
  PROVE  LET y == task_yield_cpu(k)
         IN  /\ Placed(y, R) /\ \A v : On(y, v) <=> On(k, v)
             /\ y.prio = k.prio /\ y.cur \in Task /\ (y.cur = k.cur \/ On(y, y.cur))
<1> DEFINE t == k.cur
           q == k.prio[t]
           u == Unlink(k, t)
           l == ListAddTail(ListDel(k.ready[q], t), t)
           m == [u EXCEPT !.ready[q] = l]
           moves == k.status[t] = "running" /\ On(k, t)
<1>1. CASE ~moves
  <2>1. task_yield_cpu(k) = k
    BY <1>1 DEF task_yield_cpu, On
  <2> QED BY <2>1
<1>2. CASE moves
  <2>1. PickIsTask(k) /\ t \in Task /\ q \in Prio /\ k \in SchType
    BY <1>2, PlacedFields
  <2>2. task_yield_cpu(k) = switch_task(m)
    BY <1>2 DEF task_yield_cpu, On
  <2>3. /\ Placed(u, R \cup {t}) /\ (\A v : On(u, v) <=> On(k, v) /\ v # t)
        /\ u.status = k.status /\ u.prio = k.prio /\ u.mask = k.mask /\ u.cur = k.cur
        /\ \A p \in Prio : u.ready[p] = ListDel(k.ready[p], t)
    BY <2>1, UnlinkPlaces
  <2>4. u \in SchType /\ u.ready \in [Prio -> Seq(Task)] /\ ListDel(k.ready[q], t) = u.ready[q]
        /\ NoDup(u.ready[q]) /\ t \notin ToSet(u.ready[q]) /\ u.ready[q] \in Seq(Task)
    BY <2>1, <2>3, PlacedFields DEF On
  <2>5. l \in Seq(Task) /\ l # <<>> /\ NoDup(l) /\ ToSet(l) = ToSet(u.ready[q]) \cup {t}
    BY <2>1, <2>4, ListAddTailProperties
  <2> HIDE DEF u, l, q, t
  <2>6. /\ m \in SchType /\ m.ready = [u.ready EXCEPT ![q] = l] /\ m.mask = u.mask
        /\ m.close = u.close /\ m.status = u.status /\ m.prio = u.prio
        /\ m.cur = u.cur /\ m.nest = u.nest
    BY <2>1, <2>4, <2>5 DEF SchType
  <2> HIDE DEF m
  <2>7. \A p \in Prio : m.ready[p] = IF p = q THEN l ELSE u.ready[p]
    BY <2>1, <2>4, <2>6
  <2>8. \A p \in Prio : ToSet(m.ready[p]) = IF p = q THEN ToSet(u.ready[p]) \cup {t}
                                                     ELSE ToSet(u.ready[p])
    BY <2>5, <2>7
  <2>9. \A v : On(m, v) <=> On(u, v) \/ v = t
    BY <2>1, <2>8 DEF On
  <2>10. \A v : On(m, v) <=> On(k, v)
    BY <1>2, <2>3, <2>9
  <2>11. ASSUME NEW p \in Prio
         PROVE  NoDup(m.ready[p]) /\ \A v \in ToSet(m.ready[p]) : m.prio[v] = p
    BY <2>3, <2>5, <2>6, <2>7, <2>8 DEF Placed, q
  <2>12. ASSUME NEW v \in Task \ (R \cup {t}) PROVE Fits(m, v)
    <3>1. Fits(u, v)
      BY <2>3 DEF Placed
    <3>2. \A p \in Prio : v \in ToSet(m.ready[p]) <=> v \in ToSet(u.ready[p])
      BY <2>8
    <3> QED BY <2>6, <3>1, <3>2 DEF Fits
  <2>13. OneRunning(m)
    BY <2>3, <2>6 DEF Placed, OneRunning
  <2>14. Placed(m, R \cup {t})
    BY <2>3, <2>6, <2>11, <2>12, <2>13 DEF Placed
  <2>15. On(m, t) /\ m.status[t] = "running"
    BY <1>2, <2>3, <2>6, <2>10
  <2>16. Placed(m, (R \cup {t}) \ {t})
    BY <2>1, <2>14, <2>15, Settles DEF Runnable
  <2>17. Placed(m, R)
    BY <2>16, PlacedMore
  <2>18. \A p \in Prio \ {q} : m.ready[p] = k.ready[p]
    <3> SUFFICES ASSUME NEW p \in Prio \ {q} PROVE m.ready[p] = k.ready[p]
      OBVIOUS
    <3>1. m.ready[p] = ListDel(k.ready[p], t)
      BY <2>3, <2>7
    <3>2. t \notin ToSet(k.ready[p]) /\ k.ready[p] \in Seq(Task)
      BY <2>1, LinkedInPlace, PlacedFields DEF q
    <3> QED BY <3>1, <3>2, ListDelAbsent
  <2>19. PickIsTask(m)
    <3>1. m.ready[q] # <<>> /\ m.mask = k.mask
      BY <2>1, <2>3, <2>5, <2>6, <2>7
    <3> QED BY <2>1, <2>6, <2>18, <3>1, PickKept
  <2>20. /\ Placed(switch_task(m), R) /\ (\A v : On(switch_task(m), v) <=> On(m, v))
         /\ switch_task(m).prio = m.prio /\ switch_task(m).cur \in Task
         /\ On(switch_task(m), switch_task(m).cur)
    BY <2>17, <2>19, SwitchPlaces
  <2> QED BY <2>2, <2>3, <2>6, <2>10, <2>20
<1> QED BY <1>1, <1>2

LEMMA ResumePicks ==
  ASSUME NEW k, NEW R, Placed(k, R), NEW t \in Task
  PROVE  /\ PickIsTask(add_task_to_ready_list(Unlink(k, t), t)) <=> PickIsTask(resume(k, t))
         /\ PickIsTask(k) /\ k.prio[t] = InitPriority[t] => PickIsTask(resume(k, t))
<1> DEFINE u == Unlink(k, t)
           a == add_task_to_ready_list(u, t)
           r == resume(k, t)
           q == k.prio[t]
<1>1. /\ Placed(u, R \cup {t}) /\ ~On(u, t) /\ u.prio = k.prio /\ u.mask = k.mask
      /\ \A p \in Prio : u.ready[p] = ListDel(k.ready[p], t)
  <2>1. Placed(u, R \cup {t}) /\ (\A v : On(u, v) <=> On(k, v) /\ v # t)
        /\ u.status = k.status /\ u.prio = k.prio /\ u.mask = k.mask
        /\ u.cur = k.cur /\ u.nest = k.nest
        /\ \A p \in Prio : u.ready[p] = ListDel(k.ready[p], t)
    BY UnlinkPlaces
  <2> QED BY <2>1
<1> HIDE DEF u
<1>2. Placed(a, (R \cup {t}) \ {t}) /\ a.mask = u.mask \cup {InitPriority[t]}
      /\ a.status = [u.status EXCEPT ![t] = "ready"]
  BY <1>1, AddPlaces
<1>3. \A p \in Prio : a.ready[p] = IF p = u.prio[t] THEN ListAddTail(u.ready[p], t)
                                                    ELSE u.ready[p]
  BY <1>1, PlacedFields, AddList
<1>4. /\ Placed(r, R) /\ (\A v : On(r, v) <=> On(k, v) \/ v = t)
      /\ r.prio = k.prio /\ r.cur = k.cur
      /\ r.mask = k.mask \cup {InitPriority[t]}
      /\ \A p \in Prio : r.ready[p] = IF p = k.prio[t]
                                        THEN ListAddTail(ListDel(k.ready[p], t), t)
                                        ELSE ListDel(k.ready[p], t)
  BY ResumePlaces
<1> HIDE DEF a, r
<1>5. a \in SchType /\ r \in SchType /\ k \in SchType /\ q \in Prio
  BY <1>2, <1>4, PlacedFields
<1>6. a.mask = r.mask /\ \A p \in Prio : a.ready[p] = r.ready[p]
  BY <1>1, <1>2, <1>3, <1>4
<1>7. r.mask \in SUBSET Nat /\ r.mask \subseteq Prio
  BY <1>5, SchFields DEF Prio
<1>8. r.mask # {} => Min(r.mask) \in Prio
  BY <1>7, MinProperties
<1>9. PickIsTask(a) <=> PickIsTask(r)
  BY <1>6, <1>8 DEF PickIsTask
<1>10. ASSUME PickIsTask(k), q = InitPriority[t] PROVE PickIsTask(r)
  <2>1. \A p \in Prio \ {q} : r.ready[p] = k.ready[p]
    <3> SUFFICES ASSUME NEW p \in Prio \ {q} PROVE r.ready[p] = k.ready[p]
      OBVIOUS
    <3>1. r.ready[p] = ListDel(k.ready[p], t)
      BY <1>4
    <3>2. t \notin ToSet(k.ready[p]) /\ k.ready[p] \in Seq(Task)
      BY LinkedInPlace, PlacedFields
    <3> QED BY <3>1, <3>2, ListDelAbsent
  <2>2. r.ready[q] # <<>>
    <3>1. ListDel(k.ready[q], t) \in Seq(Task) /\ r.ready[q] = ListAddTail(ListDel(k.ready[q], t), t)
      BY <1>4, <1>5, PlacedFields, ListDelProperties
    <3> QED BY <3>1 DEF ListAddTail
  <2>3. r.mask = k.mask \cup {q}
    BY <1>4, <1>10
  <2> HIDE DEF q
  <2> QED BY <1>5, <1>10, <2>1, <2>2, <2>3, PickKept
<1> QED BY <1>9, <1>10 DEF a, r, u

-----------------------------------------------------------------------------
(***************************************************************************)
(* The kernel below the mutex.  Off is a task that gets past task_hang     *)
(* only when somebody readies it.                                          *)
(***************************************************************************)
Kern(R) ==
  /\ Placed(sch, R)
  /\ tm \in TimerType /\ NoDup(tm.list)
  /\ pc \in [Task -> PC]

Off(u) == ~Linked(u) /\ u \notin Armed(tm) /\ (sch.cur = u => pc[u] = "hung")

\* What a step of the kernel leaves, for all tasks but those in S.
Prios(k, m) == \A t \in Task : m.prio[t] = k.prio[t] \/ m.prio[t] = InitPriority[t]
Spares(S) == \A u \in Task \ S : Off(u) => Off(u)'
Boots == Booting' => Booting /\ Armed(tm)' \subseteq Armed(tm)

LEMMA KernFields ==
  ASSUME NEW R, Kern(R)
  PROVE  /\ sch \in SchType /\ sch.nest = 0 /\ sch.prio \in [Task -> Prio]
         /\ sch.cur \in Task \cup {NoTask}
         /\ ~Booting => sch.cur \in Task
         /\ \A t \in Task : sch.cur = t => ~Booting
         /\ pc \in [Task -> PC]
         /\ tm.list \in Seq(Task) /\ Armed(tm) \subseteq Task
<1>1. tm.list \in Seq(Task)
  BY SchedAssumption DEF Kern, TimerType
<1>2. Armed(tm) \subseteq Task
  BY <1>1 DEF Armed, ToSet
<1> QED BY <1>1, <1>2, PlacedFields, SchOpsAssumption DEF Kern, Booting

LEMMA Spared ==
  ASSUME NEW u, Off(u), On(sch', u) => On(sch, u), u \in Armed(tm)' => u \in Armed(tm),
         sch'.cur = u => On(sch', u) \/ (sch.cur = u /\ (pc[u] = "hung" => pc'[u] = "hung"))
  PROVE  Off(u)'
BY DEF Off, On, Linked

LEMMA StopKeeps ==
  ASSUME NEW R, Kern(R), NEW t \in Task, tm' = timer_stop(tm, t)
  PROVE  tm' \in TimerType /\ NoDup(tm'.list) /\ Armed(tm)' = Armed(tm) \ {t}
BY TimerStopKeeps, SchedAssumption DEF Kern, Armed

LEMMA StartKeeps ==
  ASSUME NEW m \in TimerType, NoDup(m.list), NEW t \in Task, NEW n \in Nat
  PROVE  /\ timer_start(m, t, n) \in TimerType /\ NoDup(timer_start(m, t, n).list)
         /\ ToSet(timer_start(m, t, n).list) = ToSet(m.list) \cup {t}
BY TimerStartKeeps, SchedAssumption

LEMMA WokenPc ==
  ASSUME pc \in [Task -> PC], NEW u
  PROVE  /\ Woken(u) \in [Task -> PC]
         /\ \A v \in Task : Woken(u)[v] = pc[v] \/ (pc[v] = "enlist" /\ Woken(u)[v] = "late")
BY DEF Woken, PC

(***************************************************************************)
(* The tick.                                                               *)
(***************************************************************************)
LEMMA CountMoves ==
  ASSUME NEW R, Kern(R), TickCount
  PROVE  Kern(R)' /\ Prios(sch, sch') /\ Spares({}) /\ Boots
<1>1. sch' = sch /\ pc' = pc /\ tm' = run_tick(tm) /\ ~Booting
  BY DEF TickCount
<1>2. tm' \in TimerType /\ tm'.list = tm.list
  BY <1>1, RunTickKeeps DEF Kern
<1>3. Kern(R)'
  BY <1>1, <1>2 DEF Kern
<1>4. Armed(tm)' = Armed(tm)
  BY <1>2 DEF Armed
<1> QED BY <1>1, <1>3, <1>4 DEF Prios, Spares, Boots, Off, Linked, Booting

LEMMA SliceMoves ==
  ASSUME NEW R, Kern(R), TickYield, ~Booting, Linked(sch.cur) => PickIsTask(sch)
  PROVE  Kern(R)' /\ Prios(sch, sch') /\ Spares({}) /\ Boots
<1>1. sch' = task_yield_cpu(sch) /\ pc' = pc /\ tm' = tm /\ sch.cur \in Task
  BY KernFields DEF TickYield
<1>2. /\ Placed(sch', R) /\ (\A v : On(sch', v) <=> On(sch, v)) /\ sch'.prio = sch.prio
      /\ sch'.cur \in Task /\ (sch'.cur = sch.cur \/ On(sch', sch'.cur))
  BY <1>1, YieldPlaces DEF Kern, On, Linked
<1>3. Kern(R)'
  BY <1>1, <1>2 DEF Kern
<1>4. ASSUME NEW u \in Task, Off(u) PROVE Off(u)'
  BY <1>1, <1>2, <1>4, Spared
<1>5. ~Booting'
  BY <1>2, SchOpsAssumption DEF Booting
<1> QED BY <1>2, <1>3, <1>4, <1>5 DEF Prios, Spares, Boots

LEMMA TimersMove ==
  ASSUME NEW R, Kern(R), TickTimers, ~Booting, HeadIsDue(tm) => Finds(Head(tm.list))
  PROVE  Kern(R)' /\ Prios(sch, sch') /\ Spares({}) /\ Boots
<1>1. CASE ~HeadIsDue(tm)
  <2>1. sch' = sch /\ pc' = pc /\ tm' = tm
    BY <1>1 DEF TickTimers
  <2>2. Kern(R)'
    BY <2>1 DEF Kern
  <2> QED BY <2>1, <2>2 DEF Prios, Spares, Boots, Off, Linked, Booting
<1>2. CASE HeadIsDue(tm)
  <2> DEFINE t == Head(tm.list)
             u == Unlink(sch, t)
             a == add_task_to_ready_list(u, t)
  <2>1. /\ tm' = timer_stop(tm, t) /\ sch' = switch_task(a) /\ pc' = pc
        /\ PickIsTask(a)
    BY <1>2 DEF TickTimers, Finds
  <2>2. t \in Task /\ t \in Armed(tm)
    <3>1. tm.list \in Seq(Task) /\ tm.list # <<>>
      BY <1>2, KernFields DEF HeadIsDue
    <3>2. Len(tm.list) \in Nat \ {0} /\ Head(tm.list) = tm.list[1] /\ tm.list[1] \in Task
      BY <3>1
    <3> QED BY <3>2 DEF Armed, ToSet
  <2> HIDE DEF t
  <2>3. /\ Placed(u, R \cup {t}) /\ (\A v : On(u, v) <=> On(sch, v) /\ v # t)
        /\ u.status = sch.status /\ u.prio = sch.prio /\ u.mask = sch.mask
    BY <2>2, UnlinkPlaces DEF Kern
  <2> HIDE DEF u
  <2>4. /\ Placed(a, (R \cup {t}) \ {t}) /\ (\A v : On(a, v) <=> On(u, v) \/ v = t)
        /\ a.status = [u.status EXCEPT ![t] = "ready"] /\ a.prio = u.prio
    BY <2>2, <2>3, AddPlaces
  <2> HIDE DEF a
  <2>5. Placed(a, R)
    BY <2>4, PlacedMore
  <2>6. /\ Placed(sch', R) /\ (\A v : On(sch', v) <=> On(a, v))
        /\ sch'.prio = a.prio /\ sch'.cur \in Task /\ On(sch', sch'.cur)
    BY <2>1, <2>5, SwitchPlaces
  <2>7. tm' \in TimerType /\ NoDup(tm'.list) /\ Armed(tm)' = Armed(tm) \ {t}
    BY <2>1, <2>2, StopKeeps
  <2>8. Kern(R)'
    BY <2>1, <2>6, <2>7 DEF Kern
  <2>9. ASSUME NEW v \in Task, Off(v) PROVE Off(v)'
    <3>1. v # t
      BY <2>2, <2>9 DEF Off
    <3> QED BY <2>3, <2>4, <2>6, <2>7, <2>9, <3>1, Spared
  <2>10. ~Booting'
    BY <2>6, SchOpsAssumption DEF Booting
  <2> QED BY <2>3, <2>4, <2>6, <2>8, <2>9, <2>10 DEF Prios, Spares, Boots
<1> QED BY <1>1, <1>2

(***************************************************************************)
(* switch_task, by a handler or at the end of a kernel function.           *)
(***************************************************************************)
LEMMA SwitchMoves ==
  ASSUME NEW R, Kern(R), PickIsTask(sch), IsrSwitch \/ \E t \in Task : CallSwitch(t)
  PROVE  Kern(R)' /\ Prios(sch, sch') /\ Spares({}) /\ Boots
<1>1. sch' = switch_task(sch) /\ tm' = tm /\ pc' \in [Task -> PC]
  BY KernFields DEF IsrSwitch, CallSwitch, PC
<1>2. /\ Placed(sch', R) /\ (\A v : On(sch', v) <=> On(sch, v))
      /\ sch'.prio = sch.prio /\ sch'.cur \in Task /\ On(sch', sch'.cur)
  BY <1>1, SwitchPlaces DEF Kern
<1>3. Kern(R)'
  BY <1>1, <1>2 DEF Kern
<1>4. ASSUME NEW u \in Task, Off(u) PROVE Off(u)'
  BY <1>1, <1>2, <1>4, Spared
<1>5. ~Booting'
  BY <1>2, SchOpsAssumption DEF Booting
<1> QED BY <1>2, <1>3, <1>4, <1>5 DEF Prios, Spares, Boots

LEMMA ClearMoves ==
  ASSUME NEW R, Kern(R), NEW t \in Task, ClearFlag(t)
  PROVE  Kern(R)' /\ Prios(sch, sch') /\ Spares({}) /\ Boots
<1>1. sch' = sch /\ tm' = tm /\ pc' \in [Task -> PC] /\ sch.cur = t /\ pc[t] = "clear"
  BY KernFields DEF ClearFlag, PC, InTask
<1>2. Kern(R)'
  BY <1>1 DEF Kern
<1>3. ASSUME NEW u \in Task, Off(u) PROVE Off(u)'
  BY <1>1, <1>3 DEF Off, Linked
<1> QED BY <1>1, <1>2, <1>3 DEF Prios, Spares, Boots, Booting

(***************************************************************************)
(* The boot code.  Nobody is in a task_resume yet.                         *)
(***************************************************************************)
Booted ==
  Booting => /\ tick = "idle" /\ Armed(tm) = {}
             /\ BitmapExact(sch) /\ sch.prio = InitPriority
             /\ \A t \in Task : at[t] = "out"

LEMMA StartBoots ==
  ASSUME Kern({}), Booting, Booted, Start
  PROVE  Kern({})' /\ ~Booting' /\ sch'.prio = sch.prio
<1>1. /\ sch' = sch_start(sch) /\ tm' = tm /\ pc' = pc
      /\ sch.status[Idle] = "ready" /\ sch.cur = NoTask
  BY DEF Start, Booting
<1>2. Idle \in Task /\ BitmapExact(sch) /\ sch \in SchType /\ Fits(sch, Idle)
  BY SchedAssumption DEF Booted, Kern, Placed
<1>3. PickIsTask(sch)
  <2> DEFINE q == sch.prio[Idle]
  <2>1. q \in Prio /\ Idle \in ToSet(sch.ready[q])
    BY <1>1, <1>2, SchFields DEF Fits, Runnable
  <2>2. sch.ready[q] # <<>>
    BY <2>1, EmptyList
  <2>3. sch.mask \in SUBSET Nat /\ q \in sch.mask /\ \A p \in sch.mask : sch.ready[p] # <<>>
    BY <1>2, <2>1, <2>2 DEF BitmapExact, Prio
  <2> QED BY <2>3, MinProperties DEF PickIsTask
<1>4. /\ Placed(sch', {}) /\ (\A v : On(sch', v) <=> On(sch, v))
      /\ sch'.prio = sch.prio /\ sch'.cur \in Task /\ On(sch', sch'.cur)
  BY <1>1, <1>3, StartPlaces DEF Kern
<1>5. Kern({})'
  BY <1>1, <1>4 DEF Kern
<1> QED BY <1>4, <1>5, SchOpsAssumption DEF Booting

LEMMA CreateBoots ==
  ASSUME Kern({}), Booting, Booted, NEW t \in Task, TaskCreate(t)
  PROVE  Kern({})' /\ Booting' /\ sch'.prio = InitPriority /\ BitmapExact(sch)' /\ tm' = tm
<1> DEFINE n == InitPriority[t]
           f == [sch.status EXCEPT ![t] = "suspend"]
           g == [sch.prio EXCEPT ![t] = n]
<1>1. /\ sch' = [sch EXCEPT !.status[t] = "suspend", !.prio[t] = n] /\ tm' = tm
      /\ pc' = [pc EXCEPT ![t] = "user"] /\ sch.status[t] = "none"
  BY DEF TaskCreate
<1>2. sch \in SchType /\ sch.prio = InitPriority /\ InitPriority \in [Task -> Prio]
  BY SchOpsAssumption DEF Booted, Kern, Placed, Prio
<1>3. f \in [Task -> Status] /\ (\A v \in Task : f[v] = IF v = t THEN "suspend" ELSE sch.status[v])
  BY <1>2, SchFields DEF Status
<1>4. g = InitPriority
  BY <1>2
<1>5. sch' = [sch EXCEPT !.status = f, !.prio = g]
  BY <1>1, <1>2 DEF SchType
<1> HIDE DEF f, g
<1>6. /\ sch' \in SchType /\ sch'.status = f /\ sch'.prio = InitPriority
      /\ sch'.ready = sch.ready /\ sch'.mask = sch.mask /\ sch'.close = sch.close
      /\ sch'.cur = sch.cur /\ sch'.nest = sch.nest
  BY <1>2, <1>3, <1>4, <1>5 DEF SchType
<1>7. ASSUME NEW v \in Task PROVE Fits(sch', v)
  <2>1. Fits(sch, v)
    BY DEF Kern, Placed
  <2>2. sch'.status[v] \in Runnable <=> sch.status[v] \in Runnable
    BY <1>1, <1>3, <1>6 DEF Runnable
  <2> QED BY <1>2, <1>6, <2>1, <2>2 DEF Fits
<1>8. OneRunning(sch')
  BY <1>3, <1>6 DEF Kern, Placed, OneRunning
<1>9. Placed(sch', {})
  BY <1>2, <1>6, <1>7, <1>8 DEF Kern, Placed
<1>10. Kern({})'
  BY <1>1, <1>9 DEF Kern, PC
<1> QED BY <1>1, <1>6, <1>10 DEF Booting, BitmapExact, Booted

LEMMA ReadyBoots ==
  ASSUME Kern({}), Booting, Booted, NEW t \in Task, TaskReady(t)
  PROVE  Kern({})' /\ Booting' /\ sch'.prio = InitPriority /\ BitmapExact(sch)' /\ tm' = tm
<1> DEFINE q == InitPriority[t]
<1>1. /\ sch' = add_task_to_ready_list(sch, t) /\ tm' = tm /\ pc' = pc
      /\ sch.status[t] = "suspend"
  BY DEF TaskReady
<1>2. sch \in SchType /\ sch.prio = InitPriority /\ q \in Prio /\ Placed(sch, {})
  BY SchOpsAssumption DEF Booted, Kern, Placed, Prio
<1>3. ~On(sch, t)
  <2>1. Fits(sch, t)
    BY DEF Kern, Placed
  <2> QED BY <1>1, <2>1 DEF Fits, On, Runnable
<1>4. /\ Placed(sch', {} \ {t}) /\ (\A v : On(sch', v) <=> On(sch, v) \/ v = t)
      /\ sch'.status = [sch.status EXCEPT ![t] = "ready"]
      /\ sch'.prio = sch.prio /\ sch'.cur = sch.cur
      /\ sch'.mask = sch.mask \cup {InitPriority[t]}
  BY <1>1, <1>2, <1>3, AddPlaces
<1>5. \A p \in Prio : sch'.ready[p] = IF p = sch.prio[t] THEN ListAddTail(sch.ready[p], t)
                                                         ELSE sch.ready[p]
  BY <1>1, <1>2, AddList
<1>6. Placed(sch', {})
  BY <1>4, PlacedMore
<1>7. Kern({})'
  BY <1>1, <1>6 DEF Kern
<1>8. ASSUME NEW p \in Prio PROVE p \in sch'.mask <=> sch'.ready[p] # <<>>
  <2>1. p \in sch.mask <=> sch.ready[p] # <<>>
    BY DEF Booted, BitmapExact
  <2>2. ListAddTail(sch.ready[p], t) # <<>>
    <3>1. sch.ready[p] \in Seq(Task)
      BY <1>2, PlacedFields
    <3> QED BY <3>1 DEF ListAddTail
  <2> QED BY <1>2, <1>4, <1>5, <2>1, <2>2
<1>9. sch'.mask \subseteq Prio
  BY <1>6, PlacedFields
<1>10. BitmapExact(sch)'
  BY <1>8, <1>9 DEF BitmapExact
<1> QED BY <1>1, <1>2, <1>4, <1>7, <1>10 DEF Booting

(***************************************************************************)
(* Wake-ups by handlers, and the calls that block the task that makes them.*)
(***************************************************************************)
LEMMA WakeMoves ==
  ASSUME NEW R, Kern(R), NEW t \in Task, IsrWake(t), Finds(t)
  PROVE  Kern(R)' /\ Prios(sch, sch') /\ Spares({t}) /\ Boots
<1> DEFINE r == resume(sch, t)
<1>1. /\ sch' = switch_task(r) /\ tm' = timer_stop(tm, t) /\ pc' = Woken(t)
  BY DEF IsrWake
<1>2. /\ Placed(r, R) /\ (\A v : On(r, v) <=> On(sch, v) \/ v = t)
      /\ r.prio = sch.prio /\ r.cur = sch.cur
  BY ResumePlaces DEF Kern
<1>3. PickIsTask(r)
  BY ResumePicks DEF Kern, Finds
<1> HIDE DEF r
<1>4. /\ Placed(sch', R) /\ (\A v : On(sch', v) <=> On(r, v))
      /\ sch'.prio = r.prio /\ sch'.cur \in Task /\ On(sch', sch'.cur)
  BY <1>1, <1>2, <1>3, SwitchPlaces
<1>5. tm' \in TimerType /\ NoDup(tm'.list) /\ Armed(tm)' = Armed(tm) \ {t}
  BY <1>1, StopKeeps
<1>6. pc' \in [Task -> PC]
  BY <1>1, WokenPc DEF Kern
<1>7. Kern(R)'
  BY <1>4, <1>5, <1>6 DEF Kern
<1>8. ASSUME NEW v \in Task \ {t}, Off(v) PROVE Off(v)'
  BY <1>2, <1>4, <1>5, <1>8, Spared
<1>9. ~Booting'
  BY <1>4, SchOpsAssumption DEF Booting
<1> QED BY <1>2, <1>4, <1>7, <1>8, <1>9 DEF Prios, Spares, Boots

\* The task itself is off afterwards, unless it has started a timer.
LEMMA BlockMoves ==
  ASSUME NEW R, Kern(R), NEW t \in Task, InTask(t), pc[t] # "hung", sch' = hang(sch, t),
         NEW m \in {tm, timer_stop(tm, t)},
         tm' = m \/ \E n \in Nat : tm' = timer_start(m, t, n),
         NEW w \in PC, pc' = [pc EXCEPT ![t] = w]
  PROVE  /\ Kern(R)' /\ Prios(sch, sch') /\ Spares({}) /\ Boots
         /\ w = "hung" /\ tm' = timer_stop(tm, t) => Off(t)'
<1>1. m \in TimerType /\ NoDup(m.list) /\ ToSet(m.list) \subseteq Armed(tm)
      /\ (m = timer_stop(tm, t) => t \notin ToSet(m.list))
  <2>1. CASE m = tm /\ m # timer_stop(tm, t)
    BY <2>1 DEF Kern, Armed
  <2>2. CASE m = timer_stop(tm, t)
    <3>1. /\ m \in TimerType /\ NoDup(m.list) /\ ToSet(m.list) = ToSet(tm.list) \ {t}
      BY <2>2, TimerStopKeeps, SchedAssumption DEF Kern
    <3> QED BY <3>1 DEF Armed
  <2> QED BY <2>1, <2>2
<1>2. /\ tm' \in TimerType /\ NoDup(tm'.list) /\ Armed(tm)' \subseteq Armed(tm) \cup {t}
      /\ (tm' = timer_stop(tm, t) => t \notin Armed(tm)')
  <2>1. CASE tm' = m
    BY <1>1, <2>1 DEF Armed
  <2>2. ASSUME NEW n \in Nat, tm' = timer_start(m, t, n) PROVE
          tm' \in TimerType /\ NoDup(tm'.list) /\ Armed(tm)' \subseteq Armed(tm) \cup {t}
    <3>1. /\ tm' \in TimerType /\ NoDup(tm'.list) /\ ToSet(tm'.list) = ToSet(m.list) \cup {t}
      BY <1>1, <2>2, StartKeeps
    <3> QED BY <1>1, <3>1 DEF Armed
  <2>3. ASSUME tm' = timer_stop(tm, t) PROVE t \notin Armed(tm)'
    BY <2>3, StopKeeps
  <2> QED BY <2>1, <2>2, <2>3
<1>3. /\ Placed(sch', R) /\ (\A v : On(sch', v) <=> On(sch, v) /\ v # t)
      /\ sch'.prio = sch.prio /\ sch'.cur = sch.cur
  BY HangPlaces DEF Kern
<1>4. pc' \in [Task -> PC] /\ pc'[t] = w /\ \A v \in Task : v # t => pc'[v] = pc[v]
  BY DEF Kern
<1>5. Kern(R)'
  BY <1>2, <1>3, <1>4 DEF Kern
<1>6. ASSUME NEW v \in Task, Off(v) PROVE Off(v)'
  <2>1. v # t
    BY <1>6 DEF Off, InTask
  <2> QED BY <1>2, <1>3, <1>4, <1>6, <2>1, Spared
<1>7. ~Booting'
  BY <1>3, KernFields DEF Booting, InTask
<1>8. w = "hung" /\ tm' = timer_stop(tm, t) => Off(t)'
  BY <1>2, <1>3, <1>4 DEF Off, Linked, On
<1> QED BY <1>3, <1>5, <1>6, <1>7, <1>8 DEF Prios, Spares, Boots

-----------------------------------------------------------------------------
(***************************************************************************)
(* The mutex.  Who waits stays on the wait list, so a mutex that has been  *)
(* waited for is never free again; a task that sleeps in mutex_lock and    *)
(* has not been given the mutex is off.                                    *)
(***************************************************************************)
Locks ==
  /\ lock \in [count : 0..1, owner : Task \cup {NoTask}, wait_list : Seq(Task)]
  /\ NoDup(lock.wait_list)
  /\ at \in [Task -> At] /\ heir \in [Task -> Task \cup {NoTask}]
  /\ lock.count = 0 => lock.owner \in Task
  /\ lock.count = 1 => lock.wait_list = <<>>
  /\ \A t \in Task : /\ at[t] \in Resuming => heir[t] \in Task
                     /\ at[t] \in {"listed", "asleep"} => t \in ToSet(lock.wait_list)

\* Only the owner has a priority that it has inherited.
OwnPrios == \A t \in Task : sch.prio[t] = InitPriority[t] \/ (lock.owner = t /\ lock.count = 0)

Base == Kern(Resumed) /\ Booted /\ Locks /\ OwnPrios

Waiting(u) == at[u] = "asleep" /\ lock.owner # u
Safe == Excludes /\ \A u \in Task : Waiting(u) => Off(u)

MutexInv == Base /\ (disturbed \/ Safe)

LEMMA LockFields ==
  ASSUME Locks
  PROVE  /\ lock.count \in 0..1 /\ lock.owner \in Task \cup {NoTask} /\ lock.wait_list \in Seq(Task)
         /\ lock.count # 0 => lock.count = 1
         /\ lock.wait_list # <<>> => lock.count = 0
         /\ \A t \in Task : at[t] \in {"listed", "asleep"} => lock.count = 0 /\ lock.wait_list # <<>>
<1>1. /\ lock.count \in 0..1 /\ lock.owner \in Task \cup {NoTask} /\ lock.wait_list \in Seq(Task)
      /\ lock.count # 0 => lock.count = 1
  BY DEF Locks
<1>2. lock.wait_list # <<>> => lock.count = 0
  BY <1>1 DEF Locks
<1>3. \A t \in Task : at[t] \in {"listed", "asleep"} => lock.wait_list # <<>>
  BY EmptyList DEF Locks
<1> QED BY <1>1, <1>2, <1>3

\* A step of the kernel, for all tasks but those in S.
LEMMA KernelKeeps ==
  ASSUME Base, UNCHANGED <<lock, at, heir>>,
         Kern(Resumed)', Prios(sch, sch'), Booted', NEW S, Spares(S),
         ~disturbed' => ~disturbed /\ \A u \in S \cap Task : ~Waiting(u)
  PROVE  Base' /\ (~disturbed' /\ Safe => Safe')
<1>1. Locks'
  BY DEF Base, Locks
<1>2. OwnPrios'
  BY DEF Base, OwnPrios, Prios
<1>3. ASSUME ~disturbed', Safe PROVE Safe'
  <2>1. Excludes'
    BY <1>3 DEF Safe, Excludes
  <2>2. ASSUME NEW u \in Task, Waiting(u)' PROVE Off(u)'
    <3>1. Waiting(u)
      BY <2>2 DEF Waiting
    <3> QED BY <1>3, <3>1 DEF Safe, Spares
  <2> QED BY <2>1, <2>2 DEF Safe
<1> QED BY <1>1, <1>2, <1>3 DEF Base

LEMMA SameResumed ==
  ASSUME UNCHANGED <<at, heir>>
  PROVE  Resumed' = Resumed
BY DEF Resumed

LEMMA NobodyResumed ==
  ASSUME Base, Booting
  PROVE  Resumed = {} /\ Kern({})
BY DEF Base, Booted, Resumed

LEMMA KernelStepKeeps ==
  ASSUME Base, KernelStep
  PROVE  Base' /\ (~disturbed' /\ Safe => Safe')
<1> DEFINE R == Resumed
<1>1. Kern(R) /\ UNCHANGED <<lock, at, heir, disturbed>> /\ R' = R
  BY SameResumed DEF Base, KernelStep
<1>2. CASE Booting /\ (Start \/ \E t \in Task : TaskCreate(t) \/ TaskReady(t))
  <2>1. R = {} /\ Kern({}) /\ Booted /\ (\A t \in Task : at[t] = "out") /\ tick = "idle" /\ Armed(tm) = {}
    BY <1>2, NobodyResumed DEF Base, Booted
  <2>2. Kern({})' /\ Booted' /\ (sch'.prio = sch.prio \/ sch'.prio = InitPriority)
    <3>1. CASE Start
      BY <1>2, <2>1, <3>1, StartBoots DEF Booted
    <3>2. ASSUME NEW t \in Task, TaskCreate(t) \/ TaskReady(t)
          PROVE  Kern({})' /\ Booted' /\ sch'.prio = InitPriority
      <4>1. tick' = tick
        BY <3>2 DEF TaskCreate, TaskReady
      <4>2. Kern({})' /\ Booting' /\ sch'.prio = InitPriority /\ BitmapExact(sch)' /\ tm' = tm
        BY <1>2, <2>1, <3>2, CreateBoots, ReadyBoots
      <4> QED BY <1>1, <2>1, <4>1, <4>2 DEF Booted, Armed
    <3> QED BY <1>2, <3>1, <3>2
  <2>3. Kern(R)'
    BY <1>1, <2>1, <2>2
  <2>4. Prios(sch, sch')
    BY <2>2 DEF Prios
  <2>5. \A u \in Task : ~Waiting(u)
    BY <2>1 DEF Waiting
  <2>6. Spares(Task)
    BY DEF Spares
  <2> QED BY <1>1, <2>2, <2>3, <2>4, <2>5, <2>6, KernelKeeps
<1>3. CASE ~Booting /\ Kern(R)' /\ Prios(sch, sch') /\ Spares({}) /\ Boots
  <2>1. Booted'
    BY <1>3 DEF Boots, Booted
  <2> QED BY <1>1, <1>3, <2>1, KernelKeeps
<1>4. ASSUME ~Booting
      PROVE  Kern(R)' /\ Prios(sch, sch') /\ Spares({}) /\ Boots
  <2> HIDE DEF R
  <2>1. CASE PickIsTask(sch) /\ (IsrSwitch \/ \E t \in Task : CallSwitch(t))
    BY <1>1, <2>1, SwitchMoves
  <2>2. CASE (Linked(sch.cur) => PickIsTask(sch)) /\ TickYield
    BY <1>1, <1>4, <2>2, SliceMoves
  <2>3. CASE (HeadIsDue(tm) => Finds(Head(tm.list))) /\ TickTimers
    BY <1>1, <1>4, <2>3, TimersMove
  <2>4. CASE TickCount
    BY <1>1, <2>4, CountMoves
  <2>5. ASSUME NEW t \in Task, ClearFlag(t)
        PROVE  Kern(R)' /\ Prios(sch, sch') /\ Spares({}) /\ Boots
    BY <1>1, <2>5, ClearMoves
  <2> QED BY <1>4, <2>1, <2>2, <2>3, <2>4, <2>5 DEF KernelStep
<1>5. Booting => (Start \/ \E t \in Task : TaskCreate(t) \/ TaskReady(t))
  <2> SUFFICES ASSUME Booting PROVE Start \/ \E t \in Task : TaskCreate(t) \/ TaskReady(t)
    OBVIOUS
  <2>1. tick = "idle" /\ \A t \in Task : sch.cur # t
    BY SchOpsAssumption DEF Base, Booted, Booting
  <2>2. ~TickYield /\ ~TickTimers /\ ~TickCount /\ ~IsrSwitch
    BY <2>1 DEF TickYield, TickTimers, TickCount, IsrSwitch
  <2>3. \A t \in Task : ~CallSwitch(t) /\ ~ClearFlag(t)
    BY <2>1 DEF CallSwitch, ClearFlag, InTask
  <2> QED BY <2>2, <2>3 DEF KernelStep
<1> QED BY <1>2, <1>3, <1>4, <1>5

(***************************************************************************)
(* The steps of the tasks.  Each is taken by the current task, in its own  *)
(* code, which is not off.                                                 *)
(***************************************************************************)
LEMMA AtMoves ==
  ASSUME Locks, NEW t \in Task, NEW s \in At, at' = [at EXCEPT ![t] = s]
  PROVE  at' \in [Task -> At] /\ \A v \in Task : at'[v] = IF v = t THEN s ELSE at[v]
BY DEF Locks

\* Nobody's task_resume gets to, or past, the stretches behind the mark.
LEMMA SameTarget ==
  ASSUME Locks, NEW t \in Task, NEW s, \A v \in Task : at'[v] = IF v = t THEN s ELSE at[v],
         at[t] \notin {"unlink", "add"}, s \notin {"unlink", "add"},
         \A v \in Task \ {t} : heir'[v] = heir[v]
  PROVE  Resumed' = Resumed
<1>1. \A v \in Task : at'[v] \in {"unlink", "add"} <=> at[v] \in {"unlink", "add"}
  OBVIOUS
<1>2. \A v \in Task : at[v] \in {"unlink", "add"} => heir'[v] = heir[v]
  OBVIOUS
<1>3. \A x : x \in Resumed' <=> \E v \in Task : at'[v] \in {"unlink", "add"} /\ heir'[v] = x
  BY DEF Resumed
<1>4. \A x : x \in Resumed <=> \E v \in Task : at[v] \in {"unlink", "add"} /\ heir[v] = x
  BY DEF Resumed
<1>5. \A x : x \in Resumed' <=> x \in Resumed
  BY <1>1, <1>2, <1>3, <1>4
<1> QED BY <1>5

LEMMA CurrentOn ==
  ASSUME Base, NEW t \in Task, InApp(t)
  PROVE  /\ ~Off(t) /\ ~Booting /\ sch.cur = t /\ pc[t] = "user" /\ InTask(t)
         /\ (sch'.cur = sch.cur => Booted')
BY KernFields DEF Base, InApp, InTask, Off, Booted, Booting

LEMMA SameKernel ==
  ASSUME NEW R, Kern(R), UNCHANGED vars
  PROVE  Kern(R)' /\ Spares({}) /\ sch' = sch /\ (sch'.cur = sch.cur)
BY DEF vars, Kern, Spares, Off, Linked

LEMMA AcquireKeeps ==
  ASSUME Base, NEW t \in Task, Acquire(t)
  PROVE  Base' /\ (~disturbed' /\ Safe => Safe')
<1>1. /\ InApp(t) /\ at[t] = "out" /\ lock.count = 1 /\ UNCHANGED <<vars, heir>>
      /\ lock' = [lock EXCEPT !.count = 0, !.owner = t]
      /\ at' = [at EXCEPT ![t] = "in"]
  BY DEF Acquire
<1>2. Locks /\ Kern(Resumed) /\ lock.wait_list = <<>>
  BY <1>1 DEF Base, Locks
<1>3. /\ at' \in [Task -> At] /\ \A v \in Task : at'[v] = IF v = t THEN "in" ELSE at[v]
  BY <1>1, <1>2, AtMoves DEF At, Resuming
<1>4. Resumed' = Resumed
  BY <1>1, <1>2, <1>3, SameTarget
<1>5. Kern(Resumed)' /\ Booted' /\ sch' = sch
  BY <1>1, <1>2, <1>4, SameKernel, CurrentOn
<1>6. /\ lock' \in [count : 0..1, owner : Task \cup {NoTask}, wait_list : Seq(Task)]
      /\ lock'.count = 0 /\ lock'.owner = t /\ lock'.wait_list = lock.wait_list
  <2>1. lock \in [count : 0..1, owner : Task \cup {NoTask}, wait_list : Seq(Task)] /\ 0 \in 0..1
    BY <1>2 DEF Locks
  <2> QED BY <1>1, <2>1
<1>7. \A v \in Task : at[v] \notin {"listed", "asleep"}
  BY <1>2, LockFields
<1>8. Locks'
  BY <1>1, <1>2, <1>3, <1>6, <1>7 DEF Locks, Resuming
<1>9. OwnPrios'
  BY <1>1, <1>5, <1>6 DEF Base, OwnPrios
<1>10. ASSUME Safe PROVE Safe'
  <2>1. \A v \in Task : at[v] # "in"
    BY <1>1, <1>10 DEF Safe, Excludes
  <2>2. Excludes'
    BY <1>3, <1>6, <2>1 DEF Excludes
  <2>3. \A v \in Task : ~Waiting(v)'
    BY <1>3, <1>7 DEF Waiting
  <2> QED BY <2>2, <2>3 DEF Safe
<1> QED BY <1>5, <1>8, <1>9, <1>10 DEF Base

LEMMA WaitPlaced ==
  ASSUME NEW l \in Seq(Task), NEW t \in Task
  PROVE  WaitPlace(l, t) \in 1..(Len(l) + 1)
<1> DEFINE S == {i \in DOMAIN l : sch.prio[t] > sch.prio[l[i]]} \cup {Len(l) + 1}
<1>1. Len(l) \in Nat /\ DOMAIN l = 1..Len(l)
  OBVIOUS
<1>2. S \in SUBSET Nat /\ S # {} /\ S \subseteq 1..(Len(l) + 1)
  BY <1>1
<1>3. WaitPlace(l, t) = Min(S)
  BY DEF WaitPlace
<1> HIDE DEF S
<1> QED BY <1>2, <1>3, MinProperties

LEMMA InheritPlaces ==
  ASSUME NEW k, NEW R, Placed(k, R), NEW t \in Task, lock.owner \in Task
  PROVE  LET m == Inherit(k, t)
         IN  /\ Placed(m, R) /\ \A v : On(m, v) => On(k, v) \/ v = lock.owner
             /\ m.cur = k.cur
             /\ \A v \in Task : v # lock.owner => m.prio[v] = k.prio[v]
<1> DEFINE m == Inherit(k, t)
           o == lock.owner
           q == k.prio[t]
<1>1. q \in Prio /\ k.prio \in [Task -> Prio] /\ o \in Task
  BY PlacedFields
<1>2. CASE Outranks(k, t)
  <2>1. m = task_set_prio(k, o, q)
    BY <1>2 DEF Inherit
  <2> HIDE DEF m, q, o
  <2>2. /\ Placed(m, R) /\ (\A v : On(m, v) <=> On(k, v) \/ v = o)
        /\ m.prio = [k.prio EXCEPT ![o] = q] /\ m.cur = k.cur
    BY <1>1, <2>1, SetPrioPlaces
  <2> QED BY <1>1, <2>2 DEF m, o
<1>3. CASE ~Outranks(k, t)
  BY <1>3 DEF Inherit
<1> QED BY <1>2, <1>3

LEMMA EnqueueKeeps ==
  ASSUME Base, NEW t \in Task, Enqueue(t)
  PROVE  Base' /\ (~disturbed' /\ Safe => Safe')
<1> DEFINE l == ListDel(lock.wait_list, t)
           p == WaitPlace(l, t)
           w == ListAddBefore(l, p, t)
<1>1. /\ InApp(t) /\ at[t] = "out" /\ lock.count = 0 /\ UNCHANGED <<tm, heir>>
      /\ lock' = [lock EXCEPT !.wait_list = w]
      /\ sch' = Inherit(sch, t) /\ pc' = [pc EXCEPT ![t] = "enlist"]
      /\ at' = [at EXCEPT ![t] = "listed"]
  BY DEF Enqueue
<1>2. Locks /\ Kern(Resumed) /\ lock.owner \in Task
  BY <1>1 DEF Base, Locks
<1>3. /\ l \in Seq(Task) /\ NoDup(l) /\ ToSet(l) = ToSet(lock.wait_list) \ {t}
  BY <1>2, ListDelProperties DEF Locks
<1>4. p \in 1..(Len(l) + 1) /\ t \notin ToSet(l)
  BY <1>3, WaitPlaced
<1> HIDE DEF l, p
<1>5. w \in Seq(Task) /\ NoDup(w) /\ ToSet(w) = ToSet(l) \cup {t}
  BY <1>3, <1>4, ListAddBeforeProperties
<1> HIDE DEF w
<1>6. ToSet(w) = ToSet(lock.wait_list) \cup {t}
  BY <1>3, <1>5
<1>7. /\ lock' \in [count : 0..1, owner : Task \cup {NoTask}, wait_list : Seq(Task)]
      /\ lock'.count = 0 /\ lock'.owner = lock.owner /\ lock'.wait_list = w
  BY <1>1, <1>2, <1>5 DEF Locks
<1>8. at' \in [Task -> At] /\ \A v \in Task : at'[v] = IF v = t THEN "listed" ELSE at[v]
  BY <1>1, <1>2, AtMoves DEF At, Resuming
<1>9. Resumed' = Resumed
  BY <1>1, <1>2, <1>8, SameTarget
<1>10. Locks'
  BY <1>1, <1>2, <1>5, <1>6, <1>7, <1>8 DEF Locks, Resuming
<1>11. /\ Placed(sch', Resumed) /\ (\A v : On(sch', v) => On(sch, v) \/ v = lock.owner)
       /\ sch'.cur = sch.cur
       /\ \A v \in Task : v # lock.owner => sch'.prio[v] = sch.prio[v]
  BY <1>1, <1>2, InheritPlaces DEF Kern
<1>12. pc' \in [Task -> PC] /\ \A v \in Task : v # t => pc'[v] = pc[v]
  BY <1>1, <1>2 DEF Kern, PC
<1>13. Kern(Resumed)'
  BY <1>1, <1>2, <1>9, <1>11, <1>12 DEF Kern
<1>14. OwnPrios'
  BY <1>1, <1>7, <1>11 DEF Base, OwnPrios
<1>15. Booted'
  BY <1>1, <1>11, CurrentOn
<1>16. ASSUME Safe PROVE Safe'
  <2>1. Excludes'
    BY <1>1, <1>7, <1>8, <1>16 DEF Safe, Excludes
  <2>2. ASSUME NEW v \in Task, Waiting(v)' PROVE Off(v)'
    <3>1. v # t /\ Waiting(v) /\ v # lock.owner
      BY <1>7, <1>8, <2>2 DEF Waiting
    <3>2. Off(v) /\ pc'[v] = pc[v]
      BY <1>12, <1>16, <3>1 DEF Safe
    <3> QED BY <1>1, <1>11, <3>1, <3>2, Spared DEF Armed
  <2> QED BY <2>1, <2>2 DEF Safe
<1> QED BY <1>10, <1>13, <1>14, <1>15, <1>16 DEF Base

LEMMA TargetAdded ==
  ASSUME Locks, NEW t \in Task, NEW s \in {"unlink", "add"},
         \A v \in Task : at'[v] = IF v = t THEN s ELSE at[v], heir' = heir
  PROVE  Resumed' = Resumed \cup {heir[t]}
<1>1. \A v \in Task : at'[v] \in {"unlink", "add"} <=> v = t \/ at[v] \in {"unlink", "add"}
  OBVIOUS
<1>2. \A x : x \in Resumed' <=> \E v \in Task : at'[v] \in {"unlink", "add"} /\ heir[v] = x
  BY DEF Resumed
<1>3. \A x : x \in Resumed <=> \E v \in Task : at[v] \in {"unlink", "add"} /\ heir[v] = x
  BY DEF Resumed
<1>4. \A x : x \in Resumed' <=> x \in Resumed \cup {heir[t]}
  BY <1>1, <1>2, <1>3
<1> QED BY <1>4

LEMMA HungMoves ==
  ASSUME NEW R, Kern(R), NEW t \in Task, InTask(t), pc[t] # "hung", sch' = hang(sch, t),
         tm' = timer_stop(tm, t), pc' = [pc EXCEPT ![t] = "hung"]
  PROVE  Kern(R)' /\ Prios(sch, sch') /\ Spares({}) /\ Boots /\ Off(t)'
<1> DEFINE m == timer_stop(tm, t)
           w == "hung"
<1>1. w \in PC /\ m \in {tm, timer_stop(tm, t)} /\ tm' = m /\ pc' = [pc EXCEPT ![t] = w]
  BY DEF PC
<1> HIDE DEF m, w
<1>2. Kern(R)' /\ Prios(sch, sch') /\ Spares({}) /\ Boots
  BY <1>1, BlockMoves
<1>3. w = "hung" /\ tm' = timer_stop(tm, t) => Off(t)'
  BY <1>1, BlockMoves
<1>4. w = "hung" /\ tm' = timer_stop(tm, t)
  BY DEF w
<1> QED BY <1>2, <1>3, <1>4

LEMMA LockHangKeeps ==
  ASSUME Base, NEW t \in Task, LockHang(t)
  PROVE  Base' /\ (~disturbed' /\ Safe => Safe')
<1> DEFINE R == Resumed
<1>1. /\ at[t] = "listed" /\ InTask(t) /\ pc[t] # "hung" /\ sch' = hang(sch, t)
      /\ tm' = timer_stop(tm, t) /\ pc' = [pc EXCEPT ![t] = "hung"]
      /\ at' = [at EXCEPT ![t] = "asleep"] /\ UNCHANGED <<lock, heir, disturbed>>
  BY DEF LockHang, TaskHang, AtHang, Window
<1>2. Locks /\ Kern(R) /\ ~Booting /\ OwnPrios
  BY <1>1, KernFields DEF Base, InTask
<1>3. at' \in [Task -> At] /\ \A v \in Task : at'[v] = IF v = t THEN "asleep" ELSE at[v]
  BY <1>1, <1>2, AtMoves DEF At
<1>4. R' = R
  BY <1>1, <1>2, <1>3, SameTarget
<1> HIDE DEF R
<1>5. Kern(R)' /\ Prios(sch, sch') /\ Spares({}) /\ Boots /\ Off(t)'
  BY <1>1, <1>2, <1>4, HungMoves
<1>6. Booted'
  BY <1>2, <1>5 DEF Boots, Booted
<1>7. Locks'
  BY <1>1, <1>2, <1>3 DEF Locks, Resuming
<1>8. OwnPrios'
  BY <1>1, <1>2, <1>5 DEF OwnPrios, Prios
<1>9. ASSUME Safe PROVE Safe'
  <2>1. Excludes'
    BY <1>1, <1>3, <1>9 DEF Safe, Excludes
  <2>2. ASSUME NEW v \in Task, Waiting(v)' PROVE Off(v)'
    <3>1. CASE v = t
      BY <1>5, <3>1
    <3>2. CASE v # t
      <4>1. Waiting(v)
        BY <1>1, <1>3, <2>2, <3>2 DEF Waiting
      <4> QED BY <1>5, <1>9, <4>1 DEF Safe, Spares
    <3> QED BY <3>1, <3>2
  <2> QED BY <2>1, <2>2 DEF Safe
<1> QED BY <1>1, <1>5, <1>6, <1>7, <1>8, <1>9 DEF Base, R

LEMMA LockReturnKeeps ==
  ASSUME Base, NEW t \in Task, LockReturn(t)
  PROVE  Base' /\ (~disturbed' /\ Safe => Safe')
<1>1. /\ InApp(t) /\ at[t] = "asleep" /\ at' = [at EXCEPT ![t] = "in"]
      /\ UNCHANGED <<vars, lock, heir, disturbed>>
  BY DEF LockReturn
<1>2. Locks /\ Kern(Resumed)
  BY DEF Base
<1>3. at' \in [Task -> At] /\ \A v \in Task : at'[v] = IF v = t THEN "in" ELSE at[v]
  BY <1>1, <1>2, AtMoves DEF At
<1>4. Resumed' = Resumed
  BY <1>1, <1>2, <1>3, SameTarget
<1>5. Kern(Resumed)' /\ Spares({}) /\ sch' = sch /\ Booted'
  BY <1>1, <1>2, <1>4, SameKernel, CurrentOn
<1>6. Locks' /\ OwnPrios'
  BY <1>1, <1>2, <1>3, <1>5 DEF Base, Locks, OwnPrios, Resuming
<1>7. ASSUME Safe PROVE Safe'
  <2>1. lock.owner = t /\ lock.count = 0
    BY <1>1, <1>2, <1>7, CurrentOn, LockFields DEF Safe, Waiting
  <2>2. Excludes'
    BY <1>1, <1>3, <1>7, <2>1 DEF Safe, Excludes
  <2>3. ASSUME NEW v \in Task, Waiting(v)' PROVE Off(v)'
    <3>1. Waiting(v)
      BY <1>1, <1>3, <2>3 DEF Waiting
    <3> QED BY <1>5, <1>7, <3>1 DEF Safe, Spares
  <2> QED BY <2>2, <2>3 DEF Safe
<1> QED BY <1>5, <1>6, <1>7 DEF Base

LEMMA UnlockOtherKeeps ==
  ASSUME Base, NEW t \in Task, UnlockOther(t)
  PROVE  Base' /\ (~disturbed' /\ Safe => Safe')
<1>1. /\ InApp(t) /\ at[t] \in {"in", "out"} /\ at' = [at EXCEPT ![t] = "out"]
      /\ UNCHANGED <<vars, lock, heir, disturbed>>
  BY DEF UnlockOther
<1>2. Locks /\ Kern(Resumed)
  BY DEF Base
<1>3. at' \in [Task -> At] /\ \A v \in Task : at'[v] = IF v = t THEN "out" ELSE at[v]
  BY <1>1, <1>2, AtMoves DEF At
<1>4. Resumed' = Resumed
  BY <1>1, <1>2, <1>3, SameTarget
<1>5. Kern(Resumed)' /\ Spares({}) /\ sch' = sch /\ Booted'
  BY <1>1, <1>2, <1>4, SameKernel, CurrentOn
<1>6. Locks' /\ OwnPrios'
  BY <1>1, <1>2, <1>3, <1>5 DEF Base, Locks, OwnPrios, Resuming
<1>7. ASSUME Safe PROVE Safe'
  <2>1. Excludes'
    BY <1>1, <1>3, <1>7 DEF Safe, Excludes
  <2>2. ASSUME NEW v \in Task, Waiting(v)' PROVE Off(v)'
    <3>1. Waiting(v)
      BY <1>1, <1>3, <2>2 DEF Waiting
    <3> QED BY <1>5, <1>7, <3>1 DEF Safe, Spares
  <2> QED BY <2>1, <2>2 DEF Safe
<1> QED BY <1>5, <1>6, <1>7 DEF Base

\* The owner gets its own priority back, the mutex a new owner o or none.
LEMMA UnlockMoves ==
  ASSUME Base, NEW t \in Task, InApp(t), lock.owner = t, UNCHANGED <<tm, pc>>,
         sch' = task_set_prio(sch, t, InitPriority[t]), Resumed' = Resumed
  PROVE  /\ Kern(Resumed)' /\ Booted' /\ OwnPrios'
         /\ \A v \in Task \ {t} : Off(v) => Off(v)'
<1> DEFINE q == InitPriority[t]
<1>1. q \in Prio /\ Kern(Resumed) /\ sch.prio \in [Task -> Prio]
  BY SchOpsAssumption, KernFields DEF Base, Prio
<1> HIDE DEF q
<1>2. /\ Placed(sch', Resumed) /\ (\A v : On(sch', v) <=> On(sch, v) \/ v = t)
      /\ sch'.prio = [sch.prio EXCEPT ![t] = q] /\ sch'.cur = sch.cur
  BY <1>1, SetPrioPlaces DEF Kern, q
<1>3. Kern(Resumed)'
  BY <1>1, <1>2 DEF Kern
<1>4. Booted'
  BY <1>2, CurrentOn
<1>5. OwnPrios'
  BY <1>1, <1>2 DEF Base, OwnPrios, q
<1>6. ASSUME NEW v \in Task \ {t}, Off(v) PROVE Off(v)'
  BY <1>2, <1>6, Spared DEF Armed
<1> QED BY <1>3, <1>4, <1>5, <1>6

LEMMA UnlockFreeKeeps ==
  ASSUME Base, NEW t \in Task, UnlockFree(t)
  PROVE  Base' /\ (~disturbed' /\ Safe => Safe')
<1>1. /\ InApp(t) /\ at[t] = "in" /\ lock.owner = t /\ lock.wait_list = <<>>
      /\ lock' = [lock EXCEPT !.count = 1, !.owner = NoTask]
      /\ sch' = task_set_prio(sch, t, InitPriority[t])
      /\ at' = [at EXCEPT ![t] = "out"] /\ UNCHANGED <<tm, pc, heir, disturbed>>
  BY DEF UnlockFree
<1>2. Locks
  BY DEF Base
<1>3. at' \in [Task -> At] /\ \A v \in Task : at'[v] = IF v = t THEN "out" ELSE at[v]
  BY <1>1, <1>2, AtMoves DEF At
<1>4. Resumed' = Resumed
  BY <1>1, <1>2, <1>3, SameTarget
<1>5. Kern(Resumed)' /\ Booted' /\ OwnPrios'
  BY <1>1, <1>4, UnlockMoves
<1>6. /\ lock' \in [count : 0..1, owner : Task \cup {NoTask}, wait_list : Seq(Task)]
      /\ lock'.count = 1 /\ lock'.wait_list = <<>>
  <2>1. lock \in [count : 0..1, owner : Task \cup {NoTask}, wait_list : Seq(Task)] /\ 1 \in 0..1
    BY <1>2 DEF Locks
  <2> QED BY <1>1, <2>1
<1>7. \A v \in Task : at[v] \notin {"listed", "asleep"}
  BY <1>1, <1>2, LockFields
<1>8. Locks'
  BY <1>1, <1>2, <1>3, <1>6, <1>7 DEF Locks, Resuming
<1>9. ASSUME Safe PROVE Safe'
  <2>1. \A v \in Task : at'[v] # "in"
    BY <1>1, <1>3, <1>9 DEF Safe, Excludes
  <2> QED BY <1>3, <1>7, <2>1 DEF Safe, Excludes, Waiting
<1> QED BY <1>5, <1>8, <1>9 DEF Base

LEMMA UnlockHandKeeps ==
  ASSUME Base, NEW t \in Task, UnlockHand(t)
  PROVE  Base' /\ (~disturbed' /\ Safe => Safe')
<1> DEFINE h == Head(lock.wait_list)
<1>1. /\ InApp(t) /\ at[t] = "in" /\ lock.owner = t /\ lock.wait_list # <<>>
      /\ lock' = [lock EXCEPT !.owner = h] /\ heir' = [heir EXCEPT ![t] = h]
      /\ sch' = task_set_prio(sch, t, InitPriority[t])
      /\ at' = [at EXCEPT ![t] = "mark"] /\ UNCHANGED <<tm, pc, disturbed>>
  BY DEF UnlockHand
<1>2. Locks /\ lock.count = 0 /\ lock.wait_list \in Seq(Task)
  BY <1>1, LockFields DEF Base
<1>3. h \in Task
  <2>1. Len(lock.wait_list) \in Nat \ {0} /\ h = lock.wait_list[1] /\ lock.wait_list[1] \in Task
    BY <1>1, <1>2
  <2> QED BY <2>1
<1> HIDE DEF h
<1>4. at' \in [Task -> At] /\ \A v \in Task : at'[v] = IF v = t THEN "mark" ELSE at[v]
  BY <1>1, <1>2, AtMoves DEF At, Resuming
<1>5. heir' \in [Task -> Task \cup {NoTask}] /\ \A v \in Task : heir'[v] = IF v = t THEN h ELSE heir[v]
  BY <1>1, <1>2, <1>3 DEF Locks
<1>6. Resumed' = Resumed
  BY <1>1, <1>2, <1>4, <1>5, SameTarget
<1>7. Kern(Resumed)' /\ Booted' /\ OwnPrios' /\ \A v \in Task \ {t} : Off(v) => Off(v)'
  BY <1>1, <1>6, UnlockMoves
<1>8. /\ lock' \in [count : 0..1, owner : Task \cup {NoTask}, wait_list : Seq(Task)]
      /\ lock'.count = 0 /\ lock'.wait_list = lock.wait_list /\ lock'.owner = h
  BY <1>1, <1>2, <1>3 DEF Locks
<1>9. Locks'
  BY <1>2, <1>3, <1>4, <1>5, <1>8 DEF Locks, Resuming
<1>10. ASSUME Safe PROVE Safe'
  <2>1. \A v \in Task : at'[v] # "in"
    BY <1>1, <1>4, <1>10 DEF Safe, Excludes
  <2>2. ASSUME NEW v \in Task, Waiting(v)' PROVE Off(v)'
    <3>1. v # t /\ Waiting(v)
      BY <1>1, <1>4, <2>2 DEF Waiting
    <3> QED BY <1>7, <1>10, <3>1 DEF Safe
  <2> QED BY <2>1, <2>2 DEF Safe, Excludes
<1> QED BY <1>7, <1>9, <1>10 DEF Base
(***************************************************************************)
(* task_resume, and wake-ups around it.                                    *)
(***************************************************************************)
LEMMA ResumeMarkKeeps ==
  ASSUME Base, NEW t \in Task, ResumeMark(t)
  PROVE  Base' /\ (~disturbed' /\ Safe => ~disturbed /\ Safe')
<1> DEFINE h == heir[t]
           R == Resumed
<1>1. /\ InApp(t) /\ at[t] = "mark" /\ sch' = SetStatus(sch, h, "wait")
      /\ at' = [at EXCEPT ![t] = "unlink"] /\ UNCHANGED <<tm, pc, lock, heir>>
      /\ disturbed => disturbed'
  BY DEF ResumeMark, Disturbs
<1>2. Locks /\ Kern(R) /\ h \in Task
  BY <1>1 DEF Base, Locks, Resuming
<1>3. at' \in [Task -> At] /\ \A v \in Task : at'[v] = IF v = t THEN "unlink" ELSE at[v]
  BY <1>1, <1>2, AtMoves DEF At, Resuming
<1>4. R' = R \cup {h}
  BY <1>1, <1>2, <1>3, TargetAdded
<1> HIDE DEF h, R
<1>5. /\ Placed(sch', R \cup {h}) /\ (\A v : On(sch', v) <=> On(sch, v))
      /\ sch'.prio = sch.prio /\ sch'.cur = sch.cur
  <2>1. Placed(sch, R) /\ "wait" \in Status \ {"running"} /\ h \in Task
    BY <1>2 DEF Kern, Status
  <2>2. Placed(sch', R \cup {h}) /\ \A v : On(sch', v) <=> On(sch, v)
    BY <1>1, <2>1, StatusPlaces
  <2>3. sch'.prio = sch.prio /\ sch'.cur = sch.cur
    <3>1. sch \in SchType /\ "wait" \in Status
      BY <2>1 DEF Placed, Status
    <3> QED BY <1>1, <2>1, <3>1, SetStatusFields
  <2> QED BY <2>2, <2>3
<1>6. Kern(R)'
  BY <1>1, <1>2, <1>4, <1>5 DEF Kern
<1>7. Booted'
  BY <1>1, <1>5, CurrentOn
<1>8. Locks' /\ OwnPrios'
  BY <1>1, <1>2, <1>3, <1>5 DEF Base, Locks, OwnPrios, Resuming
<1>9. ASSUME Safe PROVE Safe'
  <2>1. Excludes'
    BY <1>1, <1>3, <1>9 DEF Safe, Excludes
  <2>2. ASSUME NEW v \in Task, Waiting(v)' PROVE Off(v)'
    <3>1. Waiting(v)
      BY <1>1, <1>3, <2>2 DEF Waiting
    <3>2. Off(v)
      BY <1>9, <3>1 DEF Safe
    <3> QED BY <1>1, <1>5, <3>2, Spared DEF Armed
  <2> QED BY <2>1, <2>2 DEF Safe
<1> QED BY <1>1, <1>6, <1>7, <1>8, <1>9 DEF Base, R

LEMMA ResumeUnlinkKeeps ==
  ASSUME Base, NEW t \in Task, ResumeUnlink(t)
  PROVE  Base' /\ (~disturbed' /\ Safe => ~disturbed /\ Safe')
<1> DEFINE h == heir[t]
           R == Resumed
<1>1. /\ InApp(t) /\ at[t] = "unlink" /\ sch' = Unlink(sch, h)
      /\ tm' = timer_stop(tm, h) /\ pc' = Woken(h)
      /\ at' = [at EXCEPT ![t] = "add"] /\ UNCHANGED <<lock, heir>>
      /\ disturbed => disturbed'
  BY DEF ResumeUnlink, Disturbs
<1>2. Locks /\ Kern(R) /\ h \in Task /\ h \in R
  BY <1>1 DEF Base, Locks, Resuming, Resumed
<1>3. at' \in [Task -> At] /\ \A v \in Task : at'[v] = IF v = t THEN "add" ELSE at[v]
  BY <1>1, <1>2, AtMoves DEF At, Resuming
<1>4. R' = R \cup {h}
  BY <1>1, <1>2, <1>3, TargetAdded
<1> HIDE DEF h, R
<1>5. /\ Placed(sch', R \cup {h}) /\ (\A v : On(sch', v) <=> On(sch, v) /\ v # h)
      /\ sch'.prio = sch.prio /\ sch'.cur = sch.cur
  BY <1>1, <1>2, UnlinkPlaces DEF Kern
<1>6. tm' \in TimerType /\ NoDup(tm'.list) /\ Armed(tm)' = Armed(tm) \ {h}
  BY <1>1, <1>2, StopKeeps
<1>7. /\ pc' \in [Task -> PC]
      /\ \A v \in Task : pc'[v] = pc[v] \/ (pc[v] = "enlist" /\ pc'[v] = "late")
  BY <1>1, <1>2, WokenPc DEF Kern
<1>8. Kern(R)'
  BY <1>4, <1>5, <1>6, <1>7 DEF Kern
<1>9. Booted'
  BY <1>1, <1>5, CurrentOn
<1>10. Locks' /\ OwnPrios'
  BY <1>1, <1>2, <1>3, <1>5 DEF Base, Locks, OwnPrios, Resuming
<1>11. ASSUME Safe PROVE Safe'
  <2>1. Excludes'
    BY <1>1, <1>3, <1>11 DEF Safe, Excludes
  <2>2. ASSUME NEW v \in Task, Waiting(v)' PROVE Off(v)'
    <3>1. Waiting(v)
      BY <1>1, <1>3, <2>2 DEF Waiting
    <3>2. Off(v)
      BY <1>11, <3>1 DEF Safe
    <3> QED BY <1>5, <1>6, <1>7, <3>2, Spared
  <2> QED BY <2>1, <2>2 DEF Safe
<1> QED BY <1>1, <1>8, <1>9, <1>10, <1>11 DEF Base, R

LEMMA ResumeAddKeeps ==
  ASSUME Base, NEW t \in Task, ResumeAdd(t)
  PROVE  Base' /\ (~disturbed' /\ Safe => ~disturbed /\ Safe')
<1> DEFINE h == heir[t]
           R == Resumed
<1>1. /\ InApp(t) /\ at[t] = "add" /\ ~On(sch, h) /\ sch' = add_task_to_ready_list(sch, h)
      /\ pc' = [pc EXCEPT ![t] = "switch"] /\ at' = [at EXCEPT ![t] = "out"]
      /\ heir' = [heir EXCEPT ![t] = NoTask] /\ UNCHANGED <<tm, lock>>
      /\ disturbed' = (disturbed \/ Meddles(t, h))
  BY DEF ResumeAdd, Disturbs, On, Linked
<1>2. Locks /\ Kern(R) /\ h \in Task
  BY <1>1 DEF Base, Locks, Resuming
<1>3. at' \in [Task -> At] /\ \A v \in Task : at'[v] = IF v = t THEN "out" ELSE at[v]
  BY <1>1, <1>2, AtMoves DEF At
<1>4. heir' \in [Task -> Task \cup {NoTask}] /\ \A v \in Task : heir'[v] = IF v = t THEN NoTask ELSE heir[v]
  BY <1>1, <1>2 DEF Locks
<1>5. R \ {h} \subseteq R'
  <2> SUFFICES ASSUME NEW x \in R, x # h PROVE x \in R'
    OBVIOUS
  <2>1. PICK v \in Task : at[v] \in {"unlink", "add"} /\ heir[v] = x
    BY DEF Resumed
  <2>2. at'[v] \in {"unlink", "add"} /\ heir'[v] = x
    BY <1>3, <1>4, <2>1
  <2> QED BY <2>2 DEF Resumed
<1> HIDE DEF h, R
<1>6. /\ Placed(sch', R \ {h}) /\ (\A v : On(sch', v) <=> On(sch, v) \/ v = h)
      /\ sch'.prio = sch.prio /\ sch'.cur = sch.cur
  <2>1. Placed(sch, R) /\ h \in Task
    BY <1>2 DEF Kern
  <2> DEFINE a == add_task_to_ready_list(sch, h)
  <2>2. /\ Placed(a, R \ {h}) /\ (\A v : On(a, v) <=> On(sch, v) \/ v = h)
        /\ a.status = [sch.status EXCEPT ![h] = "ready"] /\ a.prio = sch.prio
    BY <1>1, <2>1, AddPlaces
  <2>3. a.prio = sch.prio /\ a.cur = sch.cur
    BY <1>1, <2>1, AddPlaces
  <2> HIDE DEF a
  <2>4. sch' = a
    BY <1>1 DEF a
  <2> QED BY <2>2, <2>3, <2>4
<1>7. Placed(sch', R')
  BY <1>5, <1>6, PlacedMore
<1>8. pc' \in [Task -> PC] /\ \A v \in Task : v # t => pc'[v] = pc[v]
  BY <1>1, <1>2 DEF Kern, PC
<1>9. Kern(R)'
  BY <1>1, <1>2, <1>7, <1>8 DEF Kern
<1>10. Booted'
  BY <1>1, <1>6, CurrentOn
<1>11. Locks'
  BY <1>1, <1>2, <1>3, <1>4 DEF Locks, Resuming
<1>12. OwnPrios'
  BY <1>1, <1>6 DEF Base, OwnPrios
<1>13. ASSUME ~disturbed', Safe PROVE Safe'
  <2>1. Excludes'
    BY <1>1, <1>3, <1>13 DEF Safe, Excludes
  <2>2. ASSUME NEW v \in Task, Waiting(v)' PROVE Off(v)'
    <3>1. v # t /\ Waiting(v)
      BY <1>1, <1>3, <2>2 DEF Waiting
    <3>2. v # h
      BY <1>1, <1>13, <3>1 DEF Meddles, Waiting
    <3>3. Off(v)
      BY <1>13, <3>1 DEF Safe
    <3> QED BY <1>1, <1>6, <1>8, <3>1, <3>2, <3>3, Spared DEF Armed
  <2> QED BY <2>1, <2>2 DEF Safe
<1> QED BY <1>1, <1>9, <1>10, <1>11, <1>12, <1>13 DEF Base, R

LEMMA IsrPostKeeps ==
  ASSUME Base, NEW u \in Task, IsrPost(u)
  PROVE  Base' /\ (~disturbed' /\ Safe => ~disturbed /\ Safe')
<1> DEFINE R == Resumed
           S == {u}
<1>1. /\ Finds(u) /\ IsrWake(u) /\ ~Booting /\ UNCHANGED <<lock, at, heir>>
      /\ disturbed' = (disturbed \/ Meddles(NoTask, u))
  BY DEF IsrPost, Disturbs, IsrWake
<1>2. Kern(R) /\ R' = R
  BY <1>1, SameResumed DEF Base
<1>3. Kern(R)' /\ Prios(sch, sch') /\ Spares(S) /\ Boots
  <2> HIDE DEF R
  <2> QED BY <1>1, <1>2, WakeMoves
<1>4. Booted'
  BY <1>1, <1>3 DEF Boots, Booted
<1>5. ~disturbed' => ~disturbed /\ \A v \in S \cap Task : ~Waiting(v)
  BY <1>1 DEF Meddles, Waiting
<1> HIDE DEF S
<1> QED BY <1>1, <1>3, <1>4, <1>5, KernelKeeps

LEMMA SleepKeeps ==
  ASSUME Base, NEW t \in Task, Sleep(t)
  PROVE  Base' /\ (~disturbed' /\ Safe => ~disturbed /\ Safe')
<1> DEFINE R == Resumed
           S == {}
<1>1. PICK n \in SleepTicks : TaskSleep(t, n)
  BY DEF Sleep
<1>2. /\ InTask(t) /\ pc[t] # "hung" /\ ~Booting /\ sch' = hang(sch, t)
      /\ tm' = timer_start(timer_stop(tm, t), t, n) /\ n \in Nat
      /\ pc' = [pc EXCEPT ![t] = "slept"] /\ UNCHANGED <<lock, at, heir, disturbed>>
  BY <1>1, SchedAssumption, KernFields DEF Sleep, TaskSleep, InApp, InTask, Base
<1>3. Kern(R) /\ R' = R
  BY <1>2, SameResumed DEF Base
<1>4. Kern(R)' /\ Prios(sch, sch') /\ Spares(S) /\ Boots
  <2> DEFINE m == timer_stop(tm, t)
             w == "slept"
  <2>1. w \in PC /\ m \in {tm, timer_stop(tm, t)} /\ tm' = timer_start(m, t, n) /\ pc' = [pc EXCEPT ![t] = w]
    BY <1>2 DEF PC
  <2> HIDE DEF m, w, R
  <2> QED BY <1>2, <1>3, <2>1, BlockMoves
<1>5. Booted'
  BY <1>2, <1>4 DEF Boots, Booted
<1> HIDE DEF S
<1>6. \A v \in S \cap Task : ~Waiting(v)
  BY DEF S
<1> QED BY <1>2, <1>4, <1>5, <1>6, KernelKeeps

(***************************************************************************)
(* The invariant of Mutex.                                                 *)
(***************************************************************************)
LEMMA StepKeeps ==
  ASSUME Base, NEW t \in Task, MutexStep(t) \/ IsrPost(t)
  PROVE  Base' /\ (~disturbed' /\ Safe => Safe') /\ (disturbed => disturbed')
<1>1. disturbed => disturbed'
  BY DEF MutexStep, Acquire, Enqueue, LockHang, LockReturn, UnlockOther, UnlockFree, UnlockHand,
         ResumeMark, ResumeUnlink, ResumeAdd, Sleep, IsrPost, Disturbs
<1>2. Base' /\ (~disturbed' /\ Safe => Safe')
  BY AcquireKeeps, EnqueueKeeps, LockHangKeeps, LockReturnKeeps, UnlockOtherKeeps,
     UnlockFreeKeeps, UnlockHandKeeps, ResumeMarkKeeps, ResumeUnlinkKeeps, ResumeAddKeeps,
     IsrPostKeeps, SleepKeeps DEF MutexStep
<1> QED BY <1>1, <1>2

LEMMA BeginsPlaced ==
  ASSUME MutexInit
  PROVE  MutexInv
<1>1. Resumed = {}
  BY DEF MutexInit, Resumed
<1>2. Placed(sch, {})
  <2>1. sch \in SchType /\ sch = SchInit
    BY EmptyList, SchOpsAssumption DEF MutexInit, Init, SchInit, SchType, Status, Prio
  <2>2. /\ sch.close = <<>> /\ sch.nest = 0 /\ \A p \in Prio : sch.ready[p] = <<>>
        /\ \A t \in Task : sch.status[t] = "none"
    BY <2>1 DEF SchInit
  <2> QED BY <2>1, <2>2, EmptyList DEF Placed, Fits, OneRunning, Runnable
<1>3. tm \in TimerType /\ NoDup(tm.list) /\ Armed(tm) = {}
  <2>1. tm.list = <<>> /\ tm \in TimerType
    BY SchedAssumption, EmptyList DEF MutexInit, Init, TimerInit, TimerType
  <2> QED BY <2>1, EmptyList DEF Armed
<1>4. Kern(Resumed)
  BY <1>1, <1>2, <1>3 DEF Kern, MutexInit, Init, PC
<1>5. Booted
  <2>1. sch = SchInit
    BY DEF MutexInit, Init
  <2>2. BitmapExact(sch)
    BY <2>1 DEF BitmapExact, SchInit
  <2> QED BY <1>3, <2>1, <2>2 DEF Booted, MutexInit, Init, SchInit
<1>6. Locks
  BY EmptyList DEF MutexInit, Locks, At, Resuming
<1>7. OwnPrios
  BY DEF OwnPrios, MutexInit, Init, SchInit
<1>8. Safe
  BY DEF Safe, Excludes, Waiting, MutexInit
<1> QED BY <1>4, <1>5, <1>6, <1>7, <1>8 DEF MutexInv, Base
LEMMA StutterKeeps ==
  ASSUME Base, UNCHANGED mutexVars
  PROVE  Base' /\ (~disturbed' /\ Safe => Safe') /\ disturbed' = disturbed
<1> DEFINE S == {}
<1>1. UNCHANGED <<lock, at, heir, disturbed>> /\ UNCHANGED vars /\ Kern(Resumed)
  BY DEF mutexVars, Base
<1>2. Kern(Resumed)' /\ Spares(S) /\ sch' = sch
  BY <1>1, SameResumed, SameKernel
<1>3. Booted' /\ Prios(sch, sch')
  BY <1>1, <1>2 DEF Base, Booted, Booting, Prios, vars, Armed
<1> HIDE DEF S
<1>4. \A u \in S \cap Task : ~Waiting(u)
  BY DEF S
<1> QED BY <1>1, <1>2, <1>3, <1>4, KernelKeeps

LEMMA MutexKeeps == MutexInv /\ [MutexNext]_mutexVars => MutexInv'
<1> SUFFICES ASSUME MutexInv, [MutexNext]_mutexVars PROVE MutexInv'
  OBVIOUS
<1>1. Base' /\ (~disturbed' /\ Safe => Safe') /\ (disturbed => disturbed')
  <2>1. CASE KernelStep
    BY <2>1, KernelStepKeeps DEF MutexInv, KernelStep
  <2>2. CASE \E t \in Task : MutexStep(t) \/ IsrPost(t)
    BY <2>2, StepKeeps DEF MutexInv
  <2>3. CASE UNCHANGED mutexVars
    BY <2>3, StutterKeeps DEF MutexInv
  <2> QED BY <2>1, <2>2, <2>3 DEF MutexNext
<1> QED BY <1>1 DEF MutexInv

LEMMA MutexInvariant == MutexSpec => []MutexInv
BY BeginsPlaced, MutexKeeps, PTL DEF MutexSpec

\* Who is between mutex_lock and mutex_unlock owns the mutex, for any tasks,
\* priorities, users of the mutex and owners of queues, up to the first wake-up
\* behind the mutex's back (kernel/mutex.c:69-71).
THEOREM MutexExcludes == MutexSpec => []InsideOwns
<1>1. MutexInv => InsideOwns
  BY DEF MutexInv, Safe, InsideOwns
<1> QED BY <1>1, MutexInvariant, PTL

\* Whatever two task_resumes and the handlers between their stretches do to the
\* task they resume, the lists of the others stay exact (kernel/task.c:255-268).
THEOREM OthersStayInPlace == MutexSpec => []OthersInPlace
<1>1. ASSUME MutexInv PROVE OthersInPlace
  <2>1. Placed(sch, Resumed)
    BY <1>1 DEF MutexInv, Base, Kern
  <2>2. CloseExact(sch)
    BY <2>1, EmptyList DEF Placed, CloseExact
  <2> QED BY <2>1, <2>2 DEF Placed, Fits, OthersInPlace
<1> QED BY <1>1, MutexInvariant, PTL

-----------------------------------------------------------------------------
(***************************************************************************)
(* The first node of a list, taken off by list_del or counted off.         *)
(***************************************************************************)
Shorter(r, s) ==
  /\ Len(r) = Len(s) - 1
  /\ ToSet(r) = ToSet(s) \ {Head(s)} /\ NoDup(r)
  /\ \A i \in 1..Len(r) : r[i] = s[i + 1]

LEMMA HeadOff ==
  ASSUME NEW T, NEW s \in Seq(T), NoDup(s), s # <<>>
  PROVE  /\ Head(s) \in T /\ Head(s) \in ToSet(s) /\ Head(s) = s[1] /\ Len(s) \in Nat \ {0}
         /\ Tail(s) \in Seq(T) /\ Shorter(Tail(s), s)
         /\ ListDel(s, Head(s)) \in Seq(T) /\ Shorter(ListDel(s, Head(s)), s)
<1>1. /\ Len(s) \in Nat \ {0} /\ DOMAIN s = 1..Len(s) /\ 1 \in 1..Len(s)
      /\ Head(s) = s[1] /\ s[1] \in T
  OBVIOUS
<1>2. Head(s) \in ToSet(s)
  BY <1>1 DEF ToSet
<1>3. ListDel(s, Head(s)) = RemoveAt(s, 1)
  BY <1>1, ListDelPresent
<1>4. /\ RemoveAt(s, 1) \in Seq(T) /\ Len(RemoveAt(s, 1)) = Len(s) - 1
      /\ \A i \in 1..(Len(s) - 1) : RemoveAt(s, 1)[i] = s[i + 1]
  <2> DEFINE r == RemoveAt(s, 1)
  <2>1. /\ r \in Seq(T) /\ Len(r) = Len(s) - 1
        /\ \A i \in 1..(Len(s) - 1) : r[i] = IF i < 1 THEN s[i] ELSE s[i + 1]
    BY <1>1, RemoveAtPlaces
  <2> HIDE DEF r
  <2>2. ASSUME NEW i \in 1..(Len(s) - 1) PROVE r[i] = s[i + 1]
    <3>1. ~(i < 1)
      BY <1>1
    <3> QED BY <2>1, <3>1
  <2> QED BY <2>1, <2>2 DEF r
<1>5. NoDup(RemoveAt(s, 1)) /\ ToSet(RemoveAt(s, 1)) = ToSet(s) \ {s[1]}
  BY <1>1, RemoveAtProperties
<1>6. Shorter(RemoveAt(s, 1), s)
  BY <1>1, <1>4, <1>5 DEF Shorter
<1>7. Tail(s) \in Seq(T) /\ Len(Tail(s)) = Len(s) - 1
      /\ \A i \in 1..(Len(s) - 1) : Tail(s)[i] = s[i + 1]
  BY <1>1
<1>8. Tail(s) = RemoveAt(s, 1)
  <2> DEFINE a == Tail(s)
             b == RemoveAt(s, 1)
  <2>1. /\ a \in Seq(T) /\ b \in Seq(T) /\ Len(a) = Len(s) - 1 /\ Len(b) = Len(s) - 1
        /\ \A i \in 1..(Len(s) - 1) : a[i] = s[i + 1] /\ b[i] = s[i + 1]
    BY <1>4, <1>7
  <2> HIDE DEF a, b
  <2>2. Len(a) = Len(b) /\ \A i \in 1..Len(a) : a[i] = b[i]
    BY <2>1
  <2> QED BY <2>1, <2>2, SeqEqual DEF a, b
<1> QED BY <1>1, <1>2, <1>3, <1>4, <1>6, <1>8

(***************************************************************************)
(* msg_pool_init links every block once.                                   *)
(***************************************************************************)
LEMMA PoolLinked ==
  LET s == SetToSeq(Block)
  IN  s \in Seq(Block) /\ NoDup(s) /\ ToSet(s) = Block /\ Len(s) = Cardinality(Block)
<1> DEFINE n == Cardinality(Block)
           s == SetToSeq(Block)
<1>1. n \in Nat /\ ExistsBijection(1..n, Block) /\ IsFiniteSet(Block)
  BY FS_CardinalityType, MsgQueueAssumption
<1>2. \E f \in [1..n -> Block] : IsInjective(f)
  BY <1>1 DEF ExistsBijection, Bijection, Injection
<1>3. s \in [1..n -> Block] /\ IsInjective(s)
  BY <1>2 DEF SetToSeq
<1> HIDE DEF s
<1>4. Cardinality(1..n) = n
  BY <1>1, FS_Interval
<1>5. s \in Surjection(1..n, Block)
  BY <1>1, <1>3, <1>4, FS_Injection DEF Injection
<1>6. s \in Seq(Block) /\ Len(s) = n /\ DOMAIN s = 1..n
  BY <1>1, <1>3
<1>7. ToSet(s) = Block
  BY <1>3, <1>5, <1>6 DEF ToSet, Surjection
<1>8. NoDup(s)
  BY <1>3, <1>6 DEF NoDup, IsInjective
<1> QED BY <1>6, <1>7, <1>8 DEF s

-----------------------------------------------------------------------------
(***************************************************************************)
(* Where the blocks are.  Between __msg_q_recv's list_del and the block's  *)
(* way back to the pool the block is in the owner's hand only.             *)
(***************************************************************************)
HandOut == IF stage[Owner] = "free" THEN 1 ELSE 0

Pool ==
  /\ msg_list \in Seq(Block) /\ NoDup(msg_list)
  /\ free_msg_list \in Seq(Block) /\ NoDup(free_msg_list)
  /\ ToSet(msg_list) \cap ToSet(free_msg_list) = {}
  /\ stage[Owner] # "free" => ToSet(msg_list) \cup ToSet(free_msg_list) = Block
  /\ stage[Owner] = "free" =>
       \E b \in Block : /\ hand = {b}
                        /\ b \notin ToSet(msg_list) \cup ToSet(free_msg_list)
                        /\ ToSet(msg_list) \cup ToSet(free_msg_list) \cup {b} = Block
  /\ stage[Owner] = "del" => msg_list # <<>> /\ hand = {Head(msg_list)}
  /\ Len(msg_list) + Len(free_msg_list) + HandOut = Cardinality(Block)

\* The messages in the list and the one received last.
InOrder ==
  /\ \A i \in DOMAIN msg_list : content[msg_list[i]] = posted - Len(msg_list) + i
  /\ received = posted - Len(msg_list) + (IF stage[Owner] = "del" THEN 1 ELSE 0)

Numbers ==
  /\ content \in [Block -> Nat] /\ posted \in Nat /\ received \in Nat
  /\ InOrder

\* The owner receives, it never sends.
OwnerStages == Stage \ {"send", "full", "unlock", "wake"}
Stages == stage \in [Task -> Stage] /\ stage[Owner] \in OwnerStages

QueueInv == Stages /\ Pool /\ Numbers

LEMMA Actors == Owner \in Task /\ Sender \subseteq Task \ {Owner} /\ User \subseteq Task
BY MsgQueueAssumption, MutexAssumption

LEMMA GoesTo ==
  ASSUME Stages, NEW t \in Task, NEW s \in Stage, GoTo(t, s)
  PROVE  /\ stage' \in [Task -> Stage]
         /\ t # Owner => stage'[Owner] = stage[Owner]
         /\ t = Owner => stage'[Owner] = s
BY Actors DEF GoTo, Stages

(***************************************************************************)
(* A message is accepted: mag_block_alloc takes the first free block, and  *)
(* it goes to the tail of the list.                                        *)
(***************************************************************************)
LEMMA PutKeeps ==
  ASSUME QueueInv, free_msg_list # <<>>, Put, UNCHANGED <<hand, received>>,
         Stages', stage'[Owner] = stage[Owner]
  PROVE  QueueInv'
<1> DEFINE b == Head(free_msg_list)
<1>1. /\ msg_list \in Seq(Block) /\ NoDup(msg_list)
      /\ free_msg_list \in Seq(Block) /\ NoDup(free_msg_list)
      /\ ToSet(msg_list) \cap ToSet(free_msg_list) = {}
  BY DEF QueueInv, Pool
<1>2. /\ b \in Block /\ b \in ToSet(free_msg_list) /\ Len(free_msg_list) \in Nat
      /\ Tail(free_msg_list) \in Seq(Block) /\ Shorter(Tail(free_msg_list), free_msg_list)
  BY <1>1, HeadOff
<1> HIDE DEF b
<1>3. /\ content' = [content EXCEPT ![b] = posted + 1] /\ posted' = posted + 1
      /\ msg_list' = Append(msg_list, b) /\ free_msg_list' = Tail(free_msg_list)
  BY DEF Put, b
<1>4. /\ msg_list' \in Seq(Block) /\ NoDup(msg_list')
      /\ ToSet(msg_list') = ToSet(msg_list) \cup {b}
  BY <1>1, <1>2, <1>3, ListAddTailProperties DEF ListAddTail
<1>5. /\ Len(msg_list') = Len(msg_list) + 1 /\ Len(msg_list) \in Nat
      /\ \A i \in 1..Len(msg_list) : msg_list'[i] = msg_list[i]
      /\ msg_list'[Len(msg_list) + 1] = b
      /\ DOMAIN msg_list = 1..Len(msg_list) /\ DOMAIN msg_list' = 1..(Len(msg_list) + 1)
  BY <1>1, <1>2, <1>3
<1>6. /\ free_msg_list' \in Seq(Block) /\ NoDup(free_msg_list')
      /\ ToSet(free_msg_list') = ToSet(free_msg_list) \ {b}
      /\ Len(free_msg_list') = Len(free_msg_list) - 1
  BY <1>2, <1>3 DEF Shorter, b
<1>7. msg_list # <<>> => msg_list' # <<>> /\ Head(msg_list') = Head(msg_list)
  BY <1>1, <1>2, <1>3, <1>5
<1>8. Pool'
  <2>1. ToSet(msg_list') \cap ToSet(free_msg_list') = {}
    BY <1>1, <1>4, <1>6
  <2>2. ToSet(msg_list') \cup ToSet(free_msg_list')
          = ToSet(msg_list) \cup ToSet(free_msg_list)
    BY <1>2, <1>4, <1>6
  <2>3. HandOut' = HandOut /\ HandOut \in Nat
    BY DEF HandOut
  <2>4. Len(msg_list) + Len(free_msg_list) + HandOut = Cardinality(Block)
    BY DEF QueueInv, Pool
  <2>5. (Len(msg_list) + Len(free_msg_list) + HandOut = Cardinality(Block))'
    BY <1>2, <1>5, <1>6, <2>3, <2>4
  <2> QED BY <1>4, <1>6, <1>7, <2>1, <2>2, <2>5 DEF Pool, QueueInv
<1>9. Numbers'
  <2>1. content \in [Block -> Nat] /\ posted \in Nat /\ received \in Nat
    BY DEF QueueInv, Numbers
  <2>2. content' \in [Block -> Nat] /\ posted' \in Nat /\ received' \in Nat
    BY <1>2, <1>3, <2>1
  <2>3. ASSUME NEW i \in 1..(Len(msg_list) + 1)
        PROVE  content'[msg_list'[i]] = posted' - Len(msg_list') + i
    <3>1. CASE i = Len(msg_list) + 1
      <4>1. content'[b] = posted + 1
        BY <1>2, <1>3, <2>1
      <4> QED BY <1>3, <1>5, <2>1, <3>1, <4>1
    <3>2. CASE i # Len(msg_list) + 1
      <4>1. i \in 1..Len(msg_list)
        BY <1>5, <3>2
      <4>2. msg_list[i] \in ToSet(msg_list) /\ msg_list[i] \in Block
        BY <1>1, <1>5, <4>1 DEF ToSet
      <4>3. msg_list[i] # b
        BY <1>1, <1>2, <4>2
      <4>4. content'[msg_list[i]] = content[msg_list[i]]
        BY <1>3, <2>1, <4>2, <4>3
      <4>5. content[msg_list[i]] = posted - Len(msg_list) + i
        BY <1>5, <4>1 DEF QueueInv, Numbers, InOrder
      <4> QED BY <1>3, <1>5, <2>1, <4>1, <4>4, <4>5
    <3> QED BY <3>1, <3>2
  <2>4. received = posted - Len(msg_list) + (IF stage[Owner] = "del" THEN 1 ELSE 0)
    BY DEF QueueInv, Numbers, InOrder
  <2>5. received' = posted' - Len(msg_list') + (IF stage'[Owner] = "del" THEN 1 ELSE 0)
    BY <1>3, <1>5, <2>1, <2>4
  <2> QED BY <1>5, <2>2, <2>3, <2>5 DEF Numbers, InOrder
<1> QED BY <1>8, <1>9 DEF QueueInv

(***************************************************************************)
(* A step that leaves the lists, and the owner out of its critical section *)
(* or where it is in it.                                                   *)
(***************************************************************************)
LEMMA StillKeeps ==
  ASSUME QueueInv, UNCHANGED <<msg_list, free_msg_list, content, hand, posted, received>>,
         Stages',
         \/ stage'[Owner] = stage[Owner]
         \/ stage[Owner] \notin {"del", "free"} /\ stage'[Owner] \notin {"del", "free"}
  PROVE  QueueInv'
<1>1. HandOut' = HandOut
  BY DEF HandOut
<1>2. Pool'
  BY <1>1 DEF QueueInv, Pool
<1>3. Numbers'
  BY DEF QueueInv, Numbers, InOrder
<1> QED BY <1>2, <1>3 DEF QueueInv

(***************************************************************************)
(* The three steps of the owner's critical section: the first message is   *)
(* copied, its block taken off the list, the block given back.             *)
(***************************************************************************)
LEMMA ReadKeeps ==
  ASSUME QueueInv, RecvRead
  PROVE  QueueInv'
<1>1. /\ stage[Owner] = "recv" /\ msg_list # <<>> /\ hand' = {Head(msg_list)}
      /\ received' = content[Head(msg_list)] /\ GoTo(Owner, "del")
      /\ UNCHANGED <<msg_list, free_msg_list, content, posted>>
  BY DEF RecvRead, Locked
<1>2. Stages' /\ stage'[Owner] = "del"
  BY <1>1, Actors, GoesTo DEF QueueInv, Stages, Stage, OwnerStages
<1>3. HandOut' = HandOut
  BY <1>1, <1>2 DEF HandOut
<1>4. Pool'
  BY <1>1, <1>2, <1>3 DEF QueueInv, Pool
<1>5. msg_list \in Seq(Block) /\ NoDup(msg_list) /\ content \in [Block -> Nat] /\ posted \in Nat
  BY DEF QueueInv, Pool, Numbers
<1>6. Head(msg_list) = msg_list[1] /\ 1 \in DOMAIN msg_list /\ Head(msg_list) \in Block
      /\ Len(msg_list) \in Nat
  BY <1>1, <1>5
<1>7. received' = posted - Len(msg_list) + 1 /\ received' \in Nat
  BY <1>1, <1>5, <1>6 DEF QueueInv, Numbers, InOrder
<1>8. Numbers'
  BY <1>1, <1>2, <1>7 DEF QueueInv, Numbers, InOrder
<1> QED BY <1>2, <1>4, <1>8 DEF QueueInv

LEMMA DelKeeps ==
  ASSUME QueueInv, RecvDel
  PROVE  QueueInv'
<1> DEFINE b == Head(msg_list)
<1>1. /\ stage[Owner] = "del" /\ GoTo(Owner, "free")
      /\ UNCHANGED <<free_msg_list, content, hand, posted, received>>
  BY DEF RecvDel, Locked
<1>2. Stages' /\ stage'[Owner] = "free"
  BY <1>1, Actors, GoesTo DEF QueueInv, Stages, Stage, OwnerStages
<1>3. /\ msg_list \in Seq(Block) /\ NoDup(msg_list) /\ msg_list # <<>> /\ hand = {b}
      /\ free_msg_list \in Seq(Block) /\ NoDup(free_msg_list)
      /\ ToSet(msg_list) \cap ToSet(free_msg_list) = {}
      /\ ToSet(msg_list) \cup ToSet(free_msg_list) = Block
      /\ Len(msg_list) + Len(free_msg_list) + HandOut = Cardinality(Block)
  BY <1>1 DEF QueueInv, Pool
<1>4. msg_list' = ListDel(msg_list, b)
  BY <1>3 DEF RecvDel
<1>5. /\ b \in Block /\ b \in ToSet(msg_list) /\ b = msg_list[1]
      /\ msg_list' \in Seq(Block) /\ Shorter(msg_list', msg_list)
  BY <1>3, <1>4, HeadOff
<1>6. /\ NoDup(msg_list') /\ ToSet(msg_list') = ToSet(msg_list) \ {b}
      /\ Len(msg_list') = Len(msg_list) - 1 /\ Len(msg_list) \in Nat /\ Len(free_msg_list) \in Nat
      /\ \A i \in 1..Len(msg_list') : msg_list'[i] = msg_list[i + 1]
      /\ DOMAIN msg_list' = 1..Len(msg_list')
  BY <1>3, <1>5 DEF Shorter
<1> HIDE DEF b
<1>7. Pool'
  <2>1. HandOut = 0 /\ HandOut' = 1
    BY <1>1, <1>2 DEF HandOut
  <2>2. (Len(msg_list) + Len(free_msg_list) + HandOut = Cardinality(Block))'
    BY <1>1, <1>3, <1>6, <2>1
  <2>3. /\ ToSet(msg_list') \cap ToSet(free_msg_list) = {}
        /\ b \notin ToSet(msg_list') \cup ToSet(free_msg_list)
        /\ ToSet(msg_list') \cup ToSet(free_msg_list) \cup {b} = Block
    BY <1>3, <1>5, <1>6
  <2> QED BY <1>1, <1>2, <1>3, <1>5, <1>6, <2>2, <2>3 DEF Pool
<1>8. Numbers'
  <2>1. /\ content \in [Block -> Nat] /\ posted \in Nat /\ received \in Nat
        /\ received = posted - Len(msg_list) + 1
    BY <1>1 DEF QueueInv, Numbers, InOrder
  <2>2. ASSUME NEW i \in 1..Len(msg_list')
        PROVE  content[msg_list'[i]] = posted - Len(msg_list') + i
    <3>1. i + 1 \in DOMAIN msg_list
      BY <1>3, <1>6
    <3>2. content[msg_list[i + 1]] = posted - Len(msg_list) + (i + 1)
      BY <3>1 DEF QueueInv, Numbers, InOrder
    <3> QED BY <1>6, <2>1, <3>2
  <2>3. received = posted - Len(msg_list')
    BY <1>6, <2>1
  <2>4. received' = posted' - Len(msg_list') + 0
    BY <1>1, <1>6, <2>1, <2>3
  <2> QED BY <1>1, <1>2, <1>6, <2>1, <2>2, <2>4 DEF Numbers, InOrder
<1> QED BY <1>2, <1>7, <1>8 DEF QueueInv

LEMMA FreeKeeps ==
  ASSUME QueueInv, RecvFree
  PROVE  QueueInv'
<1>1. /\ stage[Owner] = "free" /\ GoTo(Owner, "done")
      /\ UNCHANGED <<msg_list, content, posted, received>>
  BY DEF RecvFree, Locked
<1>2. Stages' /\ stage'[Owner] = "done"
  BY <1>1, Actors, GoesTo DEF QueueInv, Stages, Stage, OwnerStages
<1>3. PICK b \in Block : /\ hand = {b}
                         /\ b \notin ToSet(msg_list) \cup ToSet(free_msg_list)
                         /\ ToSet(msg_list) \cup ToSet(free_msg_list) \cup {b} = Block
  BY <1>1 DEF QueueInv, Pool
<1>4. free_msg_list' = ListAddTail(free_msg_list, b)
  BY <1>3 DEF RecvFree
<1>5. /\ msg_list \in Seq(Block) /\ NoDup(msg_list)
      /\ free_msg_list \in Seq(Block) /\ NoDup(free_msg_list)
      /\ ToSet(msg_list) \cap ToSet(free_msg_list) = {}
      /\ Len(msg_list) + Len(free_msg_list) + HandOut = Cardinality(Block)
  BY DEF QueueInv, Pool
<1>6. /\ free_msg_list' \in Seq(Block) /\ NoDup(free_msg_list')
      /\ ToSet(free_msg_list') = ToSet(free_msg_list) \cup {b}
  BY <1>3, <1>4, <1>5, ListAddTailProperties
<1>7. Len(free_msg_list') = Len(free_msg_list) + 1 /\ Len(free_msg_list) \in Nat
      /\ Len(msg_list) \in Nat
  BY <1>4, <1>5 DEF ListAddTail
<1>8. Pool'
  <2>1. HandOut = 1 /\ HandOut' = 0
    BY <1>1, <1>2 DEF HandOut
  <2>2. (Len(msg_list) + Len(free_msg_list) + HandOut = Cardinality(Block))'
    BY <1>1, <1>5, <1>7, <2>1
  <2>3. /\ ToSet(msg_list) \cap ToSet(free_msg_list') = {}
        /\ ToSet(msg_list) \cup ToSet(free_msg_list') = Block
    BY <1>3, <1>5, <1>6
  <2> QED BY <1>1, <1>2, <1>5, <1>6, <2>2, <2>3 DEF Pool
<1>9. Numbers'
  BY <1>1, <1>2 DEF QueueInv, Numbers, InOrder
<1> QED BY <1>2, <1>8, <1>9 DEF QueueInv

(***************************************************************************)
(* Every step of the system is one of these for the queue, whatever the    *)
(* kernel, the mutex and the device handlers do.                           *)
(***************************************************************************)
LEMMA QueueInit == MsgInit => QueueInv
<1> SUFFICES ASSUME MsgInit PROVE QueueInv
  OBVIOUS
<1> DEFINE s == SetToSeq(Block)
<1>1. s \in Seq(Block) /\ NoDup(s) /\ ToSet(s) = Block /\ Len(s) = Cardinality(Block)
  BY PoolLinked
<1> HIDE DEF s
<1>2. /\ msg_list = <<>> /\ free_msg_list = s /\ content = [b \in Block |-> 0]
      /\ stage = [t \in Task |-> "idle"] /\ posted = 0 /\ received = 0
  BY DEF MsgInit, s
<1>3. stage[Owner] = "idle" /\ Stages
  BY <1>2, Actors DEF Stages, Stage, OwnerStages
<1>4. /\ msg_list \in Seq(Block) /\ NoDup(msg_list) /\ ToSet(msg_list) = {}
      /\ Len(msg_list) = 0 /\ DOMAIN msg_list = {}
  BY <1>2 DEF NoDup, ToSet
<1>5. Len(s) \in Nat /\ HandOut = 0
  BY <1>1, <1>3 DEF HandOut
<1>6. Pool
  BY <1>1, <1>2, <1>3, <1>4, <1>5 DEF Pool
<1>7. Numbers
  BY <1>2, <1>3, <1>4 DEF Numbers, InOrder
<1> QED BY <1>3, <1>6, <1>7 DEF QueueInv

LEMMA SendKeeps ==
  ASSUME QueueInv, NEW t \in User, SendStep(t) \/ Unlock(t)
  PROVE  QueueInv'
<1>1. t \in Task /\ Stages /\ stage[Owner] \in OwnerStages
  BY Actors DEF QueueInv, Stages
<1>2. CASE SendCall(t)
  BY <1>1, <1>2, Actors, GoesTo, StillKeeps DEF SendCall, Stages, Stage
<1>3. CASE SendPut(t)
  <2>1. t # Owner
    BY <1>1, <1>3 DEF SendPut, Locked, OwnerStages
  <2> QED BY <1>1, <1>3, <2>1, GoesTo, PutKeeps DEF SendPut, Stages, Stage
<1>4. CASE SendFull(t)
  <2>1. t # Owner
    BY <1>1, <1>4 DEF SendFull, Locked, OwnerStages
  <2> QED BY <1>1, <1>4, <2>1, GoesTo, StillKeeps DEF SendFull, Stages, Stage
<1>5. CASE SendWake(t)
  <2>1. t # Owner
    BY <1>1, <1>5 DEF SendWake, OwnerStages
  <2> QED BY <1>1, <1>5, <2>1, GoesTo, StillKeeps DEF SendWake, Stages, Stage
<1>6. CASE Unlock(t)
  <2>1. /\ stage[t] \in {"full", "unlock", "done"}
        /\ GoTo(t, IF stage[t] = "unlock" THEN "wake" ELSE "idle")
        /\ UNCHANGED <<msg_list, free_msg_list, content, hand, posted, received>>
    BY <1>6 DEF Unlock
  <2>2. CASE t = Owner
    <3>1. stage[Owner] = "done"
      BY <1>1, <2>1, <2>2 DEF OwnerStages
    <3>2. GoTo(t, "idle")
      BY <2>1, <2>2, <3>1
    <3> QED BY <1>1, <2>1, <2>2, <3>1, <3>2, GoesTo, StillKeeps DEF Stages, Stage, OwnerStages
  <2>3. CASE t # Owner
    <3>1. PICK g \in {"wake", "idle"} : GoTo(t, g)
      BY <2>1
    <3> QED BY <1>1, <2>1, <2>3, <3>1, GoesTo, StillKeeps DEF Stages, Stage
  <2> QED BY <2>2, <2>3
<1> QED BY <1>2, <1>3, <1>4, <1>5, <1>6 DEF SendStep

LEMMA RecvKeeps ==
  ASSUME QueueInv, RecvStep
  PROVE  QueueInv'
<1>1. Owner \in Task /\ Stages
  BY Actors DEF QueueInv
<1>2. ASSUME NEW g \in {"idle", "hang", "timed", "flag", "check", "recv"}, GoTo(Owner, g),
             stage[Owner] \in {"idle", "hang", "timed", "flag", "check"},
             UNCHANGED <<msg_list, free_msg_list, content, hand, posted, received>>
      PROVE  QueueInv'
  <2>1. stage' \in [Task -> Stage] /\ stage'[Owner] = g
    BY <1>1, <1>2, GoesTo DEF Stage
  <2>2. Stages'
    BY <2>1 DEF Stages, OwnerStages, Stage
  <2> QED BY <1>2, <2>1, <2>2, StillKeeps
<1>3. ASSUME NEW timed, RecvTest(timed) PROVE QueueInv'
  BY <1>2, <1>3 DEF RecvTest
<1>4. CASE RecvHang
  BY <1>2, <1>4 DEF RecvHang
<1>5. ASSUME NEW n, RecvHangTimed(n) PROVE QueueInv'
  BY <1>2, <1>5 DEF RecvHangTimed
<1>6. CASE RecvFlag
  BY <1>2, <1>6 DEF RecvFlag
<1>7. CASE RecvEmpty
  BY <1>2, <1>7 DEF RecvEmpty
<1>8. CASE RecvLock
  BY <1>2, <1>8 DEF RecvLock
<1> QED BY <1>3, <1>4, <1>5, <1>6, <1>7, <1>8, ReadKeeps, DelKeeps, FreeKeeps DEF RecvStep

LEMMA QueueNext == QueueInv /\ [MsgNext]_msgVars => QueueInv'
<1> SUFFICES ASSUME QueueInv, [MsgNext]_msgVars PROVE QueueInv'
  OBVIOUS
<1>1. ASSUME UNCHANGED queueVars PROVE QueueInv'
  <2>1. UNCHANGED <<msg_list, free_msg_list, content, hand, posted, received>>
        /\ Stages' /\ stage' = stage
    BY <1>1 DEF queueVars, QueueInv, Stages
  <2> QED BY <2>1, StillKeeps
<1>2. ASSUME NEW t \in User, MutexGoesOn(t) \/ QueueSleep(t) PROVE QueueInv'
  BY <1>1, <1>2 DEF MutexGoesOn, QueueSleep
<1>3. ASSUME NEW t \in User, OtherPost(t) PROVE QueueInv'
  BY <1>1, <1>3 DEF OtherPost
<1>4. CASE IsrSend
  <2>1. /\ IF free_msg_list = <<>>
             THEN UNCHANGED <<msg_list, free_msg_list, content, posted>>
             ELSE Put
        /\ stage' = stage /\ hand' = hand /\ received' = received
    BY <1>4 DEF IsrSend
  <2>2. Stages' /\ stage'[Owner] = stage[Owner]
    BY <2>1 DEF QueueInv, Stages
  <2> QED BY <2>1, <2>2, StillKeeps, PutKeeps
<1>5. CASE UNCHANGED msgVars
  BY <1>1, <1>5 DEF msgVars
<1> QED BY <1>1, <1>2, <1>3, <1>4, <1>5, SendKeeps, RecvKeeps DEF MsgNext

LEMMA QueueInvariant == MsgSpec => []QueueInv
BY QueueInit, QueueNext, PTL DEF MsgSpec

(***************************************************************************)
(* The mutex below the queue.  The steps that Mutex does not have are      *)
(* msg_q_recv's own task_hang, the sender's look at the owner, and the     *)
(* handler that sends.                                                     *)
(***************************************************************************)
MsgInv == disturbed \/ (Base /\ Safe)

LEMMA SameKeeps ==
  ASSUME Base, UNCHANGED <<sch, tm, pc, tick, lock, at, heir, disturbed>>
  PROVE  Base' /\ (Safe => Safe')
<1> DEFINE S == {}
<1>1. Kern(Resumed) /\ Resumed' = Resumed
  BY SameResumed DEF Base
<1>2. Kern(Resumed)' /\ Prios(sch, sch') /\ Booted'
  BY <1>1 DEF Base, Kern, Prios, Booted, Booting, Armed
<1>3. Spares(S)
  BY DEF Spares, Off, Linked
<1> HIDE DEF S
<1>4. \A u \in S \cap Task : ~Waiting(u)
  BY DEF S
<1>5. Base' /\ (~disturbed' /\ Safe => Safe')
  <2>1. CASE disturbed
    <3>1. Locks' /\ OwnPrios'
      BY DEF Base, Locks, OwnPrios
    <3> QED BY <1>2, <2>1, <3>1 DEF Base
  <2>2. CASE ~disturbed
    BY <1>2, <1>3, <1>4, <2>2, KernelKeeps
  <2> QED BY <2>1, <2>2
<1>6. Safe => Safe'
  BY DEF Safe, Excludes, Waiting, Off, Linked
<1> QED BY <1>5, <1>6

\* The owner's task_hang, in msg_q_recv and in msg_q_recv_timeout.
LEMMA RecvHangKeeps ==
  ASSUME Base, Safe, InTask(Owner), pc[Owner] # "hung", sch' = hang(sch, Owner),
         NEW m \in {tm, timer_stop(tm, Owner)},
         tm' = m \/ \E n \in Nat : tm' = timer_start(m, Owner, n),
         pc' = [pc EXCEPT ![Owner] = "hung"], UNCHANGED <<lock, at, heir, disturbed>>, ~disturbed
  PROVE  Base' /\ Safe'
<1> DEFINE R == Resumed
           S == {}
           w == "hung"
<1>1. Kern(R) /\ R' = R /\ Owner \in Task /\ ~Booting
  BY SameResumed, Actors, KernFields DEF Base, InTask
<1>2. w \in PC /\ pc' = [pc EXCEPT ![Owner] = w]
  BY DEF PC
<1> HIDE DEF w, R
<1>3. Kern(R)' /\ Prios(sch, sch') /\ Spares(S) /\ Boots
  BY <1>1, <1>2, BlockMoves
<1>4. Booted'
  BY <1>1, <1>3 DEF Boots, Booted
<1> HIDE DEF S
<1>5. \A u \in S \cap Task : ~Waiting(u)
  BY DEF S
<1> QED BY <1>3, <1>4, <1>5, KernelKeeps DEF R

LEMMA SendWakeKeeps ==
  ASSUME Base, Safe, Stages, NEW t \in User, SendWake(t)
  PROVE  Base' /\ Safe'
<1>1. /\ InApp(t) /\ at[t] = "out" /\ UNCHANGED <<vars, lock, disturbed>> /\ t \in Task
      /\ \/ UNCHANGED <<heir, at>>
         \/ heir' = [heir EXCEPT ![t] = Owner] /\ at' = [at EXCEPT ![t] = "mark"]
  BY Actors DEF SendWake
<1>2. UNCHANGED <<sch, tm, pc, tick>> /\ Locks /\ Owner \in Task
  BY <1>1, Actors DEF vars, Base
<1>3. CASE UNCHANGED <<heir, at>>
  BY <1>1, <1>2, <1>3, SameKeeps
<1>4. CASE heir' = [heir EXCEPT ![t] = Owner] /\ at' = [at EXCEPT ![t] = "mark"]
  <2>1. at' \in [Task -> At] /\ \A v \in Task : at'[v] = IF v = t THEN "mark" ELSE at[v]
    BY <1>1, <1>2, <1>4, AtMoves DEF At, Resuming
  <2>2. heir' \in [Task -> Task \cup {NoTask}] /\ \A v \in Task : heir'[v] = IF v = t THEN Owner ELSE heir[v]
    BY <1>1, <1>2, <1>4 DEF Locks
  <2>3. Resumed' = Resumed
    BY <1>1, <1>2, <2>1, <2>2, SameTarget
  <2>4. Kern(Resumed)' /\ Booted'
    BY <1>1, <1>2, <2>3, CurrentOn DEF Base, Kern
  <2>5. Locks' /\ OwnPrios'
    BY <1>1, <1>2, <2>1, <2>2 DEF Base, Locks, OwnPrios, Resuming
  <2>6. Excludes'
    BY <1>1, <2>1 DEF Safe, Excludes
  <2>7. ASSUME NEW v \in Task, Waiting(v)' PROVE Off(v)'
    <3>1. Waiting(v)
      BY <1>1, <2>1, <2>7 DEF Waiting
    <3> QED BY <1>2, <3>1 DEF Safe, Off, Linked
  <2> QED BY <2>4, <2>5, <2>6, <2>7 DEF Base, Safe
<1> QED BY <1>1, <1>3, <1>4

\* A list keeps its bit when its task gets its own priority again.
LEMMA SetPrioPicks ==
  ASSUME NEW k, NEW R, Placed(k, R), NEW t \in Task, k.prio[t] = InitPriority[t], PickIsTask(k)
  PROVE  PickIsTask(task_set_prio(k, t, InitPriority[t]))
<1> DEFINE q == InitPriority[t]
           u == Unlink(k, t)
           n == IF u.ready[k.prio[t]] = <<>> THEN k.mask \ OffsetMask(t) ELSE k.mask
           d == [u EXCEPT !.mask = n]
           m == [d EXCEPT !.prio[t] = q]
           s == add_task_to_ready_list(m, t)
<1>1. q \in Prio /\ k \in SchType /\ k.prio[t] = q /\ k.prio \in [Task -> Prio] /\ OffsetMask(t) = {q}
  BY SchOpsAssumption, PlacedFields DEF Prio, OffsetMask
<1> HIDE DEF q
<1>2. /\ Placed(u, R \cup {t}) /\ (\A v : On(u, v) <=> On(k, v) /\ v # t)
      /\ u.status = k.status /\ u.prio = k.prio /\ u.mask = k.mask
      /\ u.cur = k.cur /\ u.nest = k.nest
      /\ \A p \in Prio : u.ready[p] = ListDel(k.ready[p], t)
  BY UnlinkPlaces
<1>3. s = task_set_prio(k, t, q)
  BY DEF s, m, d, n, u, task_set_prio, del_task_to_ready_list
<1> HIDE DEF u
<1>4. u \in SchType /\ n \in SUBSET Prio /\ n \cup {q} = k.mask \cup {q}
  BY <1>1, <1>2, PlacedFields
<1> HIDE DEF n
<1>5. d \in SchType /\ d.ready = u.ready /\ d.prio = k.prio /\ d.mask = n
  BY <1>2, <1>4 DEF SchType
<1> HIDE DEF d
<1>6. m \in SchType /\ m.ready = u.ready /\ m.prio = k.prio /\ m.mask = n
  <2>1. m = [d EXCEPT !.prio = [d.prio EXCEPT ![t] = q]]
    BY <1>5 DEF SchType
  <2>2. [d.prio EXCEPT ![t] = q] = k.prio
    BY <1>1, <1>5
  <2> HIDE DEF m
  <2> QED BY <1>1, <1>5, <2>1, <2>2 DEF SchType
<1> HIDE DEF m
<1>7. \A p \in Prio : s.ready[p] = IF p = q THEN ListAddTail(u.ready[p], t) ELSE u.ready[p]
  BY <1>1, <1>6, AddList
<1>8. Placed(task_set_prio(k, t, q), R)
  BY <1>1, SetPrioPlaces
<1>9. s \in SchType
  BY <1>3, <1>8, PlacedFields
<1>10. s.mask = k.mask \cup {q}
  <2>1. s = [m EXCEPT !.status[t] = "ready", !.ready[m.prio[t]] = ListAddTail(m.ready[m.prio[t]], t),
                      !.mask = m.mask \cup OffsetMask(t)]
    BY DEF s, add_task_to_ready_list
  <2> HIDE DEF s
  <2>2. s.mask = m.mask \cup OffsetMask(t)
    BY <1>6, <2>1 DEF SchType
  <2> QED BY <1>1, <1>4, <1>6, <2>2
<1> HIDE DEF s
<1>11. \A p \in Prio \ {q} : s.ready[p] = k.ready[p]
  <2> SUFFICES ASSUME NEW p \in Prio \ {q} PROVE s.ready[p] = k.ready[p]
    OBVIOUS
  <2>1. s.ready[p] = ListDel(k.ready[p], t)
    BY <1>2, <1>7
  <2>2. t \notin ToSet(k.ready[p]) /\ k.ready[p] \in Seq(Task)
    BY <1>1, LinkedInPlace, PlacedFields
  <2> QED BY <2>1, <2>2, ListDelAbsent
<1>12. s.ready[q] # <<>>
  <2>1. u.ready[q] \in Seq(Task) /\ s.ready[q] = ListAddTail(u.ready[q], t)
    BY <1>1, <1>2, <1>7, PlacedFields
  <2> QED BY <2>1 DEF ListAddTail
<1>13. PickIsTask(s)
  BY <1>1, <1>9, <1>10, <1>11, <1>12, PickKept
<1> QED BY <1>3, <1>13 DEF q

\* A handler that finds the mutex free leaves it free.
LEMMA IsrMoves ==
  ASSUME Locks, lock.count = 1, sch.cur \in Task, IsrSend
  PROVE  LET k == task_set_prio(sch, sch.cur, InitPriority[sch.cur])
         IN  /\ lock' \in [count : 0..1, owner : Task \cup {NoTask}, wait_list : Seq(Task)]
             /\ lock'.count = 1 /\ lock'.wait_list = <<>>
             /\ \/ sch' = k /\ tm' = tm
                \/ sch' = switch_task(resume(k, Owner)) /\ tm' = timer_stop(tm, Owner)
<1> DEFINE c == sch.cur
           k == task_set_prio(sch, c, InitPriority[c])
           L == [count : 0..1, owner : Task \cup {NoTask}, wait_list : Seq(Task)]
           l1 == [lock EXCEPT !.count = 0, !.owner = c]
           l2 == [l1 EXCEPT !.count = 1, !.owner = NoTask]
           s1 == [sch |-> sch, tm |-> tm, pc |-> pc, lock |-> l1]
           s2 == [sch |-> k, tm |-> tm, pc |-> pc, lock |-> l2]
           s3 == [sch |-> switch_task(resume(k, Owner)), tm |-> timer_stop(tm, Owner),
                  pc |-> pc, lock |-> l2]
<1>1. lock \in L /\ lock.wait_list = <<>> /\ lock.count = 1
      /\ 0 \in 0..1 /\ 1 \in 0..1 /\ c \in Task \cup {NoTask}
  BY DEF Locks
<1>2. l1 \in L /\ l1.count = 0 /\ l1.owner = c /\ l1.wait_list = <<>>
  BY <1>1
<1> HIDE DEF l1
<1>3. l2 \in L /\ l2.count = 1 /\ l2.wait_list = <<>>
  BY <1>1, <1>2
<1>4. IsrLock(State) = s1
  BY <1>1 DEF IsrLock, State, l1
<1>5. IsrUnlock(s1) = s2
  BY <1>2 DEF IsrUnlock
<1> HIDE DEF l2, k
<1>6. IsrWakeOwner(s2) \in {s2, s3}
  BY DEF IsrWakeOwner, IsrResume
<1>7. \E s \in {s2, s3} : sch' = s.sch /\ tm' = s.tm /\ lock' = s.lock
  BY <1>4, <1>5, <1>6 DEF IsrSend
<1>8. lock' = l2 /\ \/ sch' = k /\ tm' = tm
                    \/ sch' = switch_task(resume(k, Owner)) /\ tm' = timer_stop(tm, Owner)
  BY <1>7
<1> QED BY <1>3, <1>8 DEF k

LEMMA IsrSendKeeps ==
  ASSUME Base, Safe, IsrSend, ~disturbed'
  PROVE  Base' /\ Safe'
<1> DEFINE c == sch.cur
           q == InitPriority[c]
           k == task_set_prio(sch, c, q)
           R == Resumed
<1>1. /\ ~Booting /\ PickIsTask(sch) /\ UNCHANGED <<pc, at, heir>> /\ lock.count # 0
  BY DEF IsrSend, IsrDisturbs
<1>2. Locks /\ Kern(R) /\ R' = R /\ lock.count = 1 /\ c \in Task /\ Owner \in Task
  BY <1>1, Actors, SameResumed, KernFields, LockFields DEF Base
<1>3. \A t \in Task : sch.prio[t] = InitPriority[t]
  BY <1>2 DEF Base, OwnPrios
<1>4. /\ lock' \in [count : 0..1, owner : Task \cup {NoTask}, wait_list : Seq(Task)]
      /\ lock'.count = 1 /\ lock'.wait_list = <<>>
      /\ \/ sch' = k /\ tm' = tm
         \/ sch' = switch_task(resume(k, Owner)) /\ tm' = timer_stop(tm, Owner)
  BY <1>2, IsrMoves
<1>5. Placed(sch, R) /\ q \in Prio /\ sch.prio \in [Task -> Prio]
  BY <1>2, SchOpsAssumption, KernFields DEF Kern, Prio
<1>6. PickIsTask(k)
  BY <1>1, <1>2, <1>3, <1>5, SetPrioPicks
<1> HIDE DEF c, q, R
<1>7. /\ Placed(k, R) /\ k.prio = [sch.prio EXCEPT ![c] = q] /\ k.cur = c
  <2>1. Placed(k, R)
    BY <1>2, <1>5, SetPrioPlaces
  <2>2. k.prio = [sch.prio EXCEPT ![c] = q] /\ k.cur = sch.cur
    BY <1>2, <1>5, SetPrioPlaces
  <2> QED BY <2>1, <2>2 DEF c
<1> HIDE DEF k
<1>8. \A t \in Task : k.prio[t] = InitPriority[t]
  BY <1>2, <1>3, <1>5, <1>7 DEF q
<1>9. /\ Placed(sch', R) /\ sch'.prio = k.prio /\ sch'.cur \in Task
      /\ tm' \in TimerType /\ NoDup(tm'.list)
  <2>1. CASE sch' = k /\ tm' = tm
    BY <1>2, <1>7, <2>1 DEF Kern
  <2>2. CASE sch' = switch_task(resume(k, Owner)) /\ tm' = timer_stop(tm, Owner)
    <3> DEFINE r == resume(k, Owner)
    <3>1. Placed(r, R)
      BY <1>2, <1>7, ResumePlaces
    <3>2. r.prio = k.prio
      BY <1>2, <1>7, ResumePlaces
    <3>3. PickIsTask(r)
      BY <1>2, <1>6, <1>7, <1>8, ResumePicks
    <3> HIDE DEF r
    <3>4. Placed(switch_task(r), R)
      BY <3>1, <3>3, SwitchPlaces
    <3>5. switch_task(r).prio = r.prio /\ switch_task(r).cur \in Task
      BY <3>1, <3>3, SwitchPlaces
    <3>6. tm' \in TimerType /\ NoDup(tm'.list)
      BY <1>2, <2>2, StopKeeps
    <3> QED BY <2>2, <3>2, <3>4, <3>5, <3>6 DEF r
  <2> QED BY <1>4, <2>1, <2>2
<1>10. Kern(R)'
  BY <1>1, <1>2, <1>9 DEF Kern
<1>11. Booted'
  BY <1>9, SchOpsAssumption DEF Booted, Booting
<1>12. \A v \in Task : at[v] \notin {"listed", "asleep"}
  BY <1>1, <1>2, LockFields
<1>13. Locks'
  BY <1>1, <1>2, <1>4, <1>12, EmptyList DEF Locks
<1>14. OwnPrios'
  BY <1>8, <1>9 DEF OwnPrios
<1>15. Safe'
  <2>1. \A v \in Task : at[v] # "in"
    BY <1>2 DEF Safe, Excludes
  <2> QED BY <1>1, <1>12, <2>1 DEF Safe, Excludes, Waiting
<1> QED BY <1>10, <1>11, <1>13, <1>14, <1>15 DEF Base, R

(***************************************************************************)
(* The invariant of MsgQueue, and what it says of those who change the     *)
(* lists.                                                                  *)
(***************************************************************************)
LEMMA MsgBegins == MsgInit => MsgInv
BY BeginsPlaced DEF MsgInit, MutexInit, MutexInv, MsgInv

LEMMA UserKeeps ==
  ASSUME Base, Safe, Stages, ~disturbed, ~disturbed', NEW t \in User,
         MutexGoesOn(t) \/ QueueSleep(t) \/ Unlock(t) \/ SendStep(t) \/ OtherPost(t)
  PROVE  Base' /\ Safe'
<1>1. t \in Task
  BY Actors
<1>2. CASE MutexStep(t) \/ IsrPost(t)
  BY <1>1, <1>2, StepKeeps
<1>3. CASE SendWake(t)
  BY <1>3, SendWakeKeeps
<1>4. CASE UNCHANGED mutexVars
  BY <1>4, StutterKeeps
<1> QED BY <1>2, <1>3, <1>4
        DEF MutexGoesOn, QueueSleep, Unlock, SendStep, OtherPost, MutexStep,
            SendCall, SendPut, SendFull, Lock

LEMMA OwnerKeeps ==
  ASSUME Base, Safe, ~disturbed, ~disturbed', RecvStep
  PROVE  Base' /\ Safe'
<1>1. CASE UNCHANGED mutexVars
  BY <1>1, StutterKeeps
<1>2. CASE RecvHang
  <2> DEFINE m == timer_stop(tm, Owner)
  <2>1. /\ InTask(Owner) /\ pc[Owner] # "hung" /\ sch' = hang(sch, Owner) /\ tm' = m
        /\ pc' = [pc EXCEPT ![Owner] = "hung"] /\ UNCHANGED <<lock, at, heir, disturbed>>
        /\ m \in {tm, timer_stop(tm, Owner)}
    BY <1>2 DEF RecvHang, TaskHang, AtHang, Window
  <2> HIDE DEF m
  <2> QED BY <2>1, RecvHangKeeps
<1>3. ASSUME NEW n \in Timeouts, RecvHangTimed(n) PROVE Base' /\ Safe'
  <2>1. UNCHANGED <<tick, lock, at, heir, disturbed>> /\ InTask(Owner) /\ pc[Owner] # "hung" /\ n \in Nat
    BY <1>3, MsgQueueAssumption DEF RecvHangTimed, InApp, InTask
  <2>2. CASE n = 0
    BY <1>3, <2>1, <2>2, SameKeeps DEF RecvHangTimed
  <2>3. CASE n # 0
    <3> DEFINE m == tm
    <3>1. /\ sch' = hang(sch, Owner) /\ tm' = timer_start(m, Owner, n)
          /\ pc' = [pc EXCEPT ![Owner] = "hung"] /\ m \in {tm, timer_stop(tm, Owner)}
      BY <1>3, <2>3 DEF RecvHangTimed
    <3> HIDE DEF m
    <3> QED BY <2>1, <3>1, RecvHangKeeps
  <2> QED BY <2>2, <2>3
<1>4. CASE RecvFlag
  BY <1>4, SameKeeps DEF RecvFlag
<1>5. CASE RecvLock
  <2>1. MutexStep(Owner) /\ Owner \in Task
    BY <1>5, Actors DEF RecvLock, Lock, MutexStep
  <2> QED BY <2>1, StepKeeps
<1> QED BY <1>1, <1>2, <1>3, <1>4, <1>5
        DEF RecvStep, RecvTest, RecvEmpty, RecvRead, RecvDel, RecvFree

LEMMA MsgNoted == [MsgNext]_msgVars => (disturbed => disturbed')
<1> SUFFICES ASSUME [MsgNext]_msgVars, disturbed PROVE disturbed'
  OBVIOUS
<1>1. CASE KernelStep
  BY <1>1 DEF KernelStep
<1>2. ASSUME NEW t \in User,
             MutexGoesOn(t) \/ QueueSleep(t) \/ Unlock(t) \/ SendStep(t) \/ OtherPost(t)
      PROVE  disturbed'
  BY <1>2 DEF MutexGoesOn, QueueSleep, Unlock, SendStep, OtherPost, SendCall, SendPut, SendFull,
              SendWake, Lock, Acquire, Enqueue, LockHang, LockReturn, UnlockOther, UnlockFree,
              UnlockHand, ResumeMark, ResumeUnlink, ResumeAdd, Sleep, IsrPost, Disturbs, mutexVars
<1>3. CASE RecvStep
  BY <1>3 DEF RecvStep, RecvTest, RecvHang, RecvHangTimed, RecvFlag, RecvEmpty, RecvLock, RecvRead,
              RecvDel, RecvFree, Lock, Acquire, Enqueue, Disturbs, mutexVars
<1>4. CASE IsrSend \/ UNCHANGED msgVars
  BY <1>4 DEF IsrSend, IsrDisturbs, msgVars, mutexVars
<1> QED BY <1>1, <1>2, <1>3, <1>4 DEF MsgNext

LEMMA MsgKeeps == MsgInv /\ QueueInv /\ [MsgNext]_msgVars => MsgInv'
<1> SUFFICES ASSUME MsgInv, QueueInv, [MsgNext]_msgVars, ~disturbed' PROVE Base' /\ Safe'
  BY DEF MsgInv
<1>1. Base /\ Safe /\ ~disturbed /\ Stages
  BY MsgNoted DEF MsgInv, QueueInv
<1>2. CASE KernelStep
  BY <1>1, <1>2, KernelStepKeeps
<1>3. ASSUME NEW t \in User,
             MutexGoesOn(t) \/ QueueSleep(t) \/ Unlock(t) \/ SendStep(t) \/ OtherPost(t)
      PROVE  Base' /\ Safe'
  BY <1>1, <1>3, UserKeeps
<1>4. CASE RecvStep
  BY <1>1, <1>4, OwnerKeeps
<1>5. CASE IsrSend
  BY <1>1, <1>5, IsrSendKeeps
<1>6. CASE UNCHANGED msgVars
  BY <1>1, <1>6, StutterKeeps DEF msgVars
<1> QED BY <1>2, <1>3, <1>4, <1>5, <1>6 DEF MsgNext

LEMMA MsgInvariant == MsgSpec => [](MsgInv /\ QueueInv)
<1>1. MsgInit => MsgInv /\ QueueInv
  BY MsgBegins, QueueInit
<1>2. MsgInv /\ QueueInv /\ [MsgNext]_msgVars => (MsgInv /\ QueueInv)'
  BY MsgKeeps, QueueNext
<1> QED BY <1>1, <1>2, PTL DEF MsgSpec

LEMMA ListsTouched ==
  ASSUME MsgInv, QueueInv, [MsgNext]_msgVars, OthersTouch
  PROVE  disturbed'
<1> SUFFICES ASSUME ~disturbed' PROVE FALSE
  OBVIOUS
<1>1. Excludes /\ Stages
  BY MsgNoted DEF MsgInv, Safe, QueueInv
<1>2. PICK u \in User : at[u] = "in" /\ lock.owner = u /\ stage'[u] = stage[u]
  BY DEF OthersTouch
<1>3. u \in Task /\ lock.count = 0
  BY <1>1, <1>2, Actors DEF Excludes
<1>4. ~IsrSend
  BY <1>3 DEF IsrSend, IsrDisturbs
<1>5. ASSUME NEW t \in User, SendPut(t) PROVE FALSE
  <2>1. t = u /\ stage[t] = "send" /\ GoTo(t, "unlock") /\ t \in Task
    BY <1>1, <1>2, <1>5, Actors DEF SendPut, Locked, Excludes
  <2> QED BY <1>1, <1>2, <2>1 DEF GoTo, Stages
<1>6. CASE RecvDel \/ RecvFree
  <2>1. PICK g \in {"free", "done"} : GoTo(Owner, g) /\ stage[Owner] # g /\ at[Owner] = "in" /\ Owner \in Task
    BY <1>6, Actors DEF RecvDel, RecvFree, Locked
  <2>2. Owner = u
    BY <1>1, <1>2, <2>1 DEF Excludes
  <2> QED BY <1>1, <1>2, <2>1, <2>2 DEF GoTo, Stages
<1>7. CASE UNCHANGED <<msg_list, free_msg_list>>
  BY <1>7 DEF OthersTouch, Touched
<1> QED BY <1>4, <1>5, <1>6, <1>7
        DEF MsgNext, queueVars, msgVars, MutexGoesOn, QueueSleep, Unlock, SendStep, OtherPost,
            SendCall, SendFull, SendWake, RecvStep, RecvTest, RecvHang, RecvHangTimed, RecvFlag,
            RecvEmpty, RecvLock, RecvRead

\* Nobody changes the lists while another task is between mutex_lock and
\* mutex_unlock, for any tasks, priorities, senders and handlers, up to the
\* first wake-up behind the mutex's back or the first handler that finds the
\* mutex taken (kernel/msg_queue.c:124, 164).
THEOREM QueueIsGuarded == MsgSpec => TasksKeepOut
<1>1. MsgInv /\ QueueInv /\ [MsgNext]_msgVars => [OthersTouch => disturbed']_msgVars
  BY ListsTouched
<1> QED BY <1>1, MsgInvariant, PTL DEF MsgSpec, TasksKeepOut

\* No block of the pool is lost or linked twice, for any number of blocks and
\* senders, with and without timeouts, as long as the mutex is left alone and
\* with it the lists (QueueIsGuarded, kernel/msg_queue.c:91-107).
THEOREM PoolKeepsBlocks == MsgSpec => []BlocksKept
<1>1. QueueInv => BlocksKept
  <2> SUFFICES ASSUME QueueInv PROVE BlocksKept
    OBVIOUS
  <2> DEFINE out == IF stage[Owner] = "free" THEN hand ELSE {}
  <2>1. Cardinality(out) = HandOut
    BY FS_EmptySet, FS_Singleton DEF QueueInv, Pool, HandOut
  <2>2. ToSet(msg_list) \cup ToSet(free_msg_list) \cup out = Block
    BY DEF QueueInv, Pool
  <2> QED BY <2>1, <2>2 DEF BlocksKept, QueueInv, Pool
<1> QED BY <1>1, QueueInvariant, PTL

\* Messages are received in the order they were accepted in, each once, on the
\* same terms (kernel/msg_queue.c:133, 165).
THEOREM MessagesInOrder == MsgSpec => []InOrderOnce
<1>1. QueueInv => InOrderOnce
  BY DEF QueueInv, Numbers, InOrder, InOrderOnce
<1> QED BY <1>1, QueueInvariant, PTL

=============================================================================
