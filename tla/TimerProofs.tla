---------------------------- MODULE TimerProofs ----------------------------
(***************************************************************************)
(* The timer list with its absolute ticks (WkTimer) implements the         *)
(* countdown that tasks see (TimerRel), serves timers in the order of      *)
(* their ticks and none too late, for any timers, priorities and times.    *)
(*                                                                         *)
(* All of it holds while run_tick is TIMER_TICK_MAX ticks away from its    *)
(* wrap (Unwrapped).  The list is sorted by timeout_tick and not only by   *)
(* what get_lave_tick makes of it, which is 0 for every overdue timer; and *)
(* a timer that is due has as many ticks left before the bound on its      *)
(* lateness as there are timers up to it (PatientBy), since nothing is     *)
(* linked in front of a timer that is due.                                 *)
(***************************************************************************)
EXTENDS WkTimer, TimerOpsProofs, FiniteSetTheorems

Unwrapped == Horizon + TickMax <= U64Max

TimersTyped ==
  /\ list \in Seq(Timer) /\ NoDup(list)
  /\ timeout_tick \in [Timer -> Nat]
  /\ run \in 0..Horizon
  /\ phase \in {"run", "check"}

Deadlines == \A t \in ToSet(list) : timeout_tick[t] \in 1..(run + TickMax)

\* List l is sorted by the ticks d.
SortedBy(l, d) == \A i, j \in 1..Len(l) : i < j => d[l[i]] <= d[l[j]]

\* At tick r, each timer of l that is due has b ticks, less one for each timer
\* up to it.
PatientBy(l, d, r, b) ==
  \A i \in 1..Len(l) : d[l[i]] <= r => r - d[l[i]] + i <= b

Patience == Cardinality(Timer) - (IF phase = "check" THEN 0 ELSE 1)

Inv ==
  /\ TimersTyped /\ Deadlines
  /\ SortedBy(list, timeout_tick)
  /\ PatientBy(list, timeout_tick, run, Patience)

-----------------------------------------------------------------------------
(***************************************************************************)
(* The timers on the list, by their places.                                *)
(***************************************************************************)
LEMMA Places ==
  ASSUME NEW T, NEW l \in Seq(T)
  PROVE  /\ Len(l) \in Nat /\ DOMAIN l = 1..Len(l)
         /\ \A i \in 1..Len(l) : l[i] \in T /\ l[i] \in ToSet(l)
         /\ \A t \in ToSet(l) : t \in T /\ \E i \in 1..Len(l) : t = l[i]
BY DEF ToSet

(***************************************************************************)
(* A list without duplicates is not longer than there are timers.          *)
(***************************************************************************)
LEMMA ShortList ==
  ASSUME IsFiniteSet(Timer), NEW l \in Seq(Timer), NoDup(l)
  PROVE  Cardinality(Timer) \in Nat /\ Len(l) <= Cardinality(Timer)
<1>1. Len(l) \in Nat /\ l \in [1..Len(l) -> Timer]
  OBVIOUS
<1>2. l \in Injection(1..Len(l), Timer)
  BY <1>1 DEF NoDup, Injection, IsInjective
<1>3. Cardinality(1..Len(l)) = Len(l)
  BY <1>1, FS_Interval
<1>4. Cardinality(1..Len(l)) <= Cardinality(Timer)
  BY <1>2, FS_Injection
<1> QED BY <1>3, <1>4, FS_CardinalityType

(***************************************************************************)
(* Without a wrap the ticks left are the difference, or 0 when overdue.    *)
(***************************************************************************)
LEMMA LaveTick ==
  ASSUME Unwrapped, run \in 0..Horizon, NEW d \in 1..(run + TickMax)
  PROVE  get_lave_tick(d) = IF d >= run THEN d - run ELSE 0
<1>1. U64Max \in Nat /\ TickMax \in Nat /\ run \in Nat /\ Horizon \in Nat
  BY WkTimerAssumption
<1>2. U64Max - run + d > TickMax
  BY <1>1 DEF Unwrapped
<1> QED BY <1>1, <1>2 DEF get_lave_tick

LEMMA StartTick ==
  ASSUME Unwrapped, run \in 0..Horizon, NEW n \in InitTicks
  PROVE  /\ n \in 1..TickMax /\ TimeoutTick(n) = run + n
         /\ run + n \in 1..(run + TickMax) /\ run + n \in Nat
         /\ get_lave_tick(TimeoutTick(n)) = n
<1>1. n \in 1..TickMax /\ U64Max \in Nat /\ TickMax \in Nat /\ run \in Nat /\ Horizon \in Nat
  BY WkTimerAssumption
<1>2. U64Max - run >= n
  BY <1>1 DEF Unwrapped
<1>3. TimeoutTick(n) = run + n /\ run + n \in 1..(run + TickMax)
  BY <1>1, <1>2 DEF TimeoutTick
<1>4. get_lave_tick(run + n) = n
  BY <1>1, <1>3, LaveTick
<1> QED BY <1>1, <1>3, <1>4

-----------------------------------------------------------------------------
(***************************************************************************)
(* The order depends on the ticks of the listed timers only.               *)
(***************************************************************************)
LEMMA SameTicks ==
  ASSUME NEW l \in Seq(Timer), NEW d, NEW e, NEW r, NEW b, \A t \in ToSet(l) : e[t] = d[t],
         SortedBy(l, d), PatientBy(l, d, r, b)
  PROVE  SortedBy(l, e) /\ PatientBy(l, e, r, b)
<1>1. \A i \in 1..Len(l) : e[l[i]] = d[l[i]]
  BY Places
<1> QED BY <1>1 DEF SortedBy, PatientBy

LEMMA Closer ==
  ASSUME NEW r \in Nat, NEW x \in Nat, NEW i \in Nat, NEW j \in Nat, NEW b \in Int, r - x + j <= b
  PROVE  /\ i <= j => r - x + i <= b
         /\ j = i + 1 => r - x + i <= b - 1
OBVIOUS

(***************************************************************************)
(* Unlinking a timer lets those behind it move forward.                    *)
(***************************************************************************)
LEMMA UnlinkKeeps ==
  ASSUME NEW l \in Seq(Timer), NoDup(l), NEW d \in [Timer -> Nat], NEW r \in Nat, NEW b \in Int,
         SortedBy(l, d), PatientBy(l, d, r, b), NEW t
  PROVE  SortedBy(ListDel(l, t), d) /\ PatientBy(ListDel(l, t), d, r, b)
<1> DEFINE m == ListDel(l, t)
<1>1. m \in Seq(Timer)
  BY ListDelProperties
<1>2. PICK k \in 1..(Len(l) + 1) : Without(m, l, k)
  BY ListDelPlaces
<1> HIDE DEF m
<1>3. Len(l) \in Nat /\ Len(m) \in Nat /\ Len(m) = IF k <= Len(l) THEN Len(l) - 1 ELSE Len(l)
  BY <1>1, <1>2 DEF Without
<1> DEFINE old(i) == IF i < k THEN i ELSE i + 1
<1>4. \A i \in 1..Len(m) : old(i) \in 1..Len(l) /\ i <= old(i) /\ m[i] = l[old(i)]
  BY <1>2, <1>3 DEF Without
<1>5. \A i, j \in 1..Len(m) : i < j => old(i) < old(j)
  BY <1>3
<1> HIDE DEF old
<1>6. SortedBy(m, d)
  BY <1>4, <1>5 DEF SortedBy
<1>7. ASSUME NEW i \in 1..Len(m), d[m[i]] <= r PROVE r - d[m[i]] + i <= b
  <2>1. r - d[m[i]] + old(i) <= b
    BY <1>4, <1>7 DEF PatientBy
  <2>2. d[m[i]] \in Nat
    BY <1>1, Places
  <2>3. old(i) \in Nat /\ i \in Nat /\ i <= old(i)
    BY <1>3, <1>4
  <2> QED BY <2>1, <2>2, <2>3, Closer
<1>8. PatientBy(m, d, r, b)
  BY <1>7 DEF PatientBy
<1> QED BY <1>6, <1>8 DEF m

(***************************************************************************)
(* Serving the first timer brings all others one place forward.            *)
(***************************************************************************)
LEMMA ServingKeeps ==
  ASSUME NEW l \in Seq(Timer), NoDup(l), l # <<>>, NEW d \in [Timer -> Nat],
         NEW r \in Nat, NEW b \in Int, PatientBy(l, d, r, b)
  PROVE  PatientBy(ListDel(l, l[1]), d, r, b - 1)
<1> DEFINE m == ListDel(l, l[1])
<1>1. Len(l) \in Nat \ {0} /\ 1 \in 1..Len(l)
  OBVIOUS
<1>2. m = RemoveAt(l, 1)
  BY <1>1, ListDelPresent
<1>3. Len(m) = Len(l) - 1 /\ m \in Seq(Timer)
  BY <1>1, <1>2, RemoveAtPlaces
<1>4. \A i \in 1..(Len(l) - 1) : m[i] = l[i+1]
  BY <1>1, <1>2, RemoveAtPlaces
<1> HIDE DEF m
<1>5. ASSUME NEW i \in 1..Len(m), d[m[i]] <= r PROVE r - d[m[i]] + i <= b - 1
  <2>1. i + 1 \in 1..Len(l) /\ m[i] = l[i+1]
    BY <1>1, <1>3, <1>4
  <2>2. r - d[m[i]] + (i + 1) <= b
    BY <1>5, <2>1 DEF PatientBy
  <2>3. d[m[i]] \in Nat /\ i \in Nat
    BY <1>3, Places
  <2> QED BY <2>2, <2>3, Closer
<1> QED BY <1>5 DEF PatientBy, m

(***************************************************************************)
(* A timer that is not due is linked behind those that are.                *)
(***************************************************************************)
LEMMA LinkKeeps ==
  ASSUME NEW l \in Seq(Timer), NEW t \in Timer, NEW d \in [Timer -> Nat], NEW r \in Nat,
         NEW b \in Int, SortedBy(l, d), PatientBy(l, d, r, b), r < d[t],
         NEW p \in 1..(Len(l) + 1),
         \A i \in 1..Len(l) : i < p => d[l[i]] <= d[t],
         \A i \in 1..Len(l) : p <= i => d[t] <= d[l[i]]
  PROVE  /\ SortedBy(ListAddBefore(l, p, t), d)
         /\ PatientBy(ListAddBefore(l, p, t), d, r, b)
<1> DEFINE m == ListAddBefore(l, p, t)
<1>1. /\ Len(m) = Len(l) + 1 /\ Len(l) \in Nat /\ p \in 1..(Len(l) + 1)
      /\ \A i \in 1..Len(m) : m[i] = IF i < p THEN l[i] ELSE IF i = p THEN t ELSE l[i-1]
  <2>1. m \in Seq(Timer) /\ With(m, l, p, t)
    BY ListAddBeforePlaces
  <2>2. Len(l) \in Nat
    OBVIOUS
  <2> HIDE DEF m
  <2> QED BY <2>1, <2>2 DEF With
<1>0. m \in Seq(Timer)
  BY ListAddBeforePlaces
<1> HIDE DEF m
<1>2. ASSUME NEW i \in 1..Len(m)
      PROVE  /\ i < p => i \in 1..Len(l) /\ m[i] = l[i] /\ d[m[i]] <= d[t]
             /\ i = p => m[i] = t
             /\ i > p => i - 1 \in 1..Len(l) /\ m[i] = l[i-1] /\ d[t] <= d[m[i]]
  <2>1. CASE i < p
    BY <1>1, <2>1
  <2>2. CASE i = p
    BY <1>1, <2>2
  <2>3. CASE i > p
    <3>1. i - 1 \in 1..Len(l) /\ m[i] = l[i-1] /\ p <= i - 1
      BY <1>1, <2>3
    <3> QED BY <3>1, <2>3
  <2> QED BY <1>1, <2>1, <2>2, <2>3
<1>3. \A i \in 1..Len(m) : d[m[i]] \in Nat
  BY <1>0, Places
<1>4. ASSUME NEW i \in 1..Len(m), NEW j \in 1..Len(m), i < j PROVE d[m[i]] <= d[m[j]]
  <2>0. d[m[i]] \in Nat /\ d[m[j]] \in Nat /\ d[t] \in Nat
    BY <1>3
  <2>1. CASE j < p
    <3>1. i \in 1..Len(l) /\ j \in 1..Len(l) /\ m[i] = l[i] /\ m[j] = l[j]
      BY <1>1, <1>2, <1>4, <2>1
    <3> QED BY <3>1, <1>4 DEF SortedBy
  <2>2. CASE j = p
    BY <1>1, <1>2, <1>4, <2>2
  <2>3. CASE j > p /\ i <= p
    <3>1. d[m[i]] <= d[t]
      BY <1>1, <1>2, <2>0, <2>3
    <3> QED BY <3>1, <1>1, <1>2, <2>0, <2>3
  <2>4. CASE i > p
    <3>1. /\ i - 1 \in 1..Len(l) /\ j - 1 \in 1..Len(l) /\ i - 1 < j - 1
          /\ m[i] = l[i-1] /\ m[j] = l[j-1]
      BY <1>1, <1>2, <1>4, <2>4
    <3> QED BY <3>1 DEF SortedBy
  <2> QED BY <1>1, <2>1, <2>2, <2>3, <2>4
<1>5. ASSUME NEW i \in 1..Len(m), d[m[i]] <= r PROVE r - d[m[i]] + i <= b
  <2>1. i < p
    <3>1. i >= p => d[t] <= d[m[i]]
      BY <1>1, <1>2, <1>3
    <3> QED BY <1>1, <1>3, <1>5, <3>1
  <2> QED BY <1>2, <1>5, <2>1 DEF PatientBy
<1> QED BY <1>4, <1>5 DEF SortedBy, PatientBy, m

-----------------------------------------------------------------------------
(***************************************************************************)
(* The place timer_start finds: no timer before it is due later, no timer  *)
(* from it on is due earlier.                                              *)
(***************************************************************************)
LEMMA StartPlace ==
  ASSUME Unwrapped, TimersTyped, Deadlines, SortedBy(list, timeout_tick),
         NEW t \in Timer, NEW n \in InitTicks, NEW l, l = ListDel(list, t),
         SortedBy(l, timeout_tick), Start(t, n)
  PROVE  \E p \in 1..(Len(l) + 1) :
           /\ list' = ListAddBefore(l, p, t)
           /\ \A i \in 1..Len(l) : i < p => timeout_tick[l[i]] <= run + n
           /\ \A i \in 1..Len(l) : p <= i => run + n <= timeout_tick[l[i]]
<1> DEFINE old(i) == get_lave_tick(timeout_tick[l[i]])
           new == get_lave_tick(TimeoutTick(n))
           Before(i) == \/ old(i) < new
                        \/ old(i) = new /\ TimerPriority[l[i]] <= TimerPriority[t]
           S == {i \in 1..Len(l) : ~Before(i)} \cup {Len(l) + 1}
           p == Min(S)
<1>1. l \in Seq(Timer) /\ ToSet(l) = ToSet(list) \ {t}
  BY ListDelProperties DEF TimersTyped
<1>2. run \in 0..Horizon /\ run \in Nat /\ TickMax \in Nat /\ Len(l) \in Nat
  BY <1>1, WkTimerAssumption DEF TimersTyped
<1>3. \A i \in 1..Len(l) : timeout_tick[l[i]] \in 1..(run + TickMax)
  BY <1>1, Places DEF Deadlines
<1>4. \A i \in 1..Len(l) : old(i) = IF timeout_tick[l[i]] >= run THEN timeout_tick[l[i]] - run ELSE 0
  BY <1>2, <1>3, LaveTick
<1>5. new = n /\ n \in 1..TickMax
  BY <1>2, StartTick
<1>6. list' = ListAddBefore(l, p, t)
  BY DEF Start
<1> HIDE DEF old, new
<1>7. \A i \in 1..Len(l) : Before(i) => timeout_tick[l[i]] <= run + n
  BY <1>2, <1>3, <1>4, <1>5
<1>8. \A i \in 1..Len(l) : ~Before(i) => run + n <= timeout_tick[l[i]]
  <2> SUFFICES ASSUME NEW i \in 1..Len(l), ~Before(i) PROVE run + n <= timeout_tick[l[i]]
    OBVIOUS
  <2>1. timeout_tick[l[i]] \in Nat /\ n \in Nat \ {0}
    BY <1>2, <1>3, <1>5
  <2>2. old(i) \in Nat
    BY <1>2, <1>4, <2>1
  <2>3. ~(old(i) < n)
    BY <1>5
  <2> QED BY <1>2, <1>4, <2>1, <2>2, <2>3
<1> HIDE DEF Before
<1>9. S \in SUBSET Nat /\ Len(l) + 1 \in S /\ S \subseteq 1..(Len(l) + 1)
  BY <1>2
<1>10. p \in S /\ \A i \in S : p <= i
  BY <1>9, MinProperties
<1>11. p \in 1..(Len(l) + 1) /\ p \in Nat
  BY <1>2, <1>9, <1>10
<1>12. \A i \in 1..Len(l) : i < p => Before(i)
  BY <1>10, <1>11
<1>13. p \in 1..Len(l) => ~Before(p)
  BY <1>2, <1>10
<1> HIDE DEF p
<1>14. ASSUME NEW i \in 1..Len(l), p <= i PROVE run + n <= timeout_tick[l[i]]
  <2>1. p \in 1..Len(l)
    BY <1>2, <1>11, <1>14
  <2>2. run + n <= timeout_tick[l[p]]
    BY <1>8, <1>13, <2>1
  <2>3. timeout_tick[l[p]] <= timeout_tick[l[i]]
    <3>1. p = i => timeout_tick[l[p]] = timeout_tick[l[i]]
      OBVIOUS
    <3>2. p # i => p < i
      BY <1>11, <1>14
    <3> QED BY <3>1, <3>2, <2>1, <1>3 DEF SortedBy
  <2> QED BY <1>2, <1>3, <1>5, <2>1, <2>2, <2>3
<1> QED BY <1>6, <1>7, <1>11, <1>12, <1>14

(***************************************************************************)
(* Starting a timer, listed or not.                                        *)
(***************************************************************************)
LEMMA PatienceType ==
  ASSUME IsFiniteSet(Timer)
  PROVE  Patience \in Int /\ Cardinality(Timer) \in Nat
BY FS_CardinalityType DEF Patience

LEMMA StartStep ==
  ASSUME Unwrapped, IsFiniteSet(Timer), Inv, NEW t \in Timer, NEW n \in InitTicks, Start(t, n)
  PROVE  Inv'
<1> DEFINE l == ListDel(list, t)
           d == [timeout_tick EXCEPT ![t] = run + n]
<1>1. /\ list \in Seq(Timer) /\ NoDup(list) /\ timeout_tick \in [Timer -> Nat]
      /\ run \in 0..Horizon /\ run \in Nat /\ Horizon \in Nat /\ TickMax \in Nat /\ Patience \in Int
  BY WkTimerAssumption, PatienceType DEF Inv, TimersTyped
<1>2. /\ n \in 1..TickMax /\ TimeoutTick(n) = run + n
      /\ run + n \in 1..(run + TickMax) /\ run + n \in Nat
  BY <1>1, StartTick
<1>3. /\ timeout_tick' = d /\ run' = run /\ phase' = phase /\ Patience' = Patience
  BY <1>2 DEF Start, Patience
<1>4. d \in [Timer -> Nat] /\ d[t] = run + n /\ \A u \in Timer \ {t} : d[u] = timeout_tick[u]
  BY <1>1, <1>2
<1>5. l \in Seq(Timer) /\ NoDup(l) /\ ToSet(l) = ToSet(list) \ {t} /\ t \notin ToSet(l)
  BY <1>1, ListDelProperties
<1>6. SortedBy(l, timeout_tick) /\ PatientBy(l, timeout_tick, run, Patience)
  BY <1>1, UnlinkKeeps DEF Inv
<1>7. PICK p \in 1..(Len(l) + 1) :
           /\ list' = ListAddBefore(l, p, t)
           /\ \A i \in 1..Len(l) : i < p => timeout_tick[l[i]] <= run + n
           /\ \A i \in 1..Len(l) : p <= i => run + n <= timeout_tick[l[i]]
  BY <1>6, StartPlace DEF Inv
<1> HIDE DEF l, d
<1>8. \A u \in ToSet(l) : u \in Timer \ {t} /\ d[u] = timeout_tick[u]
  BY <1>4, <1>5, Places
<1>9. SortedBy(l, d) /\ PatientBy(l, d, run, Patience)
  BY <1>5, <1>6, <1>8, SameTicks
<1>10. run < d[t]
  BY <1>1, <1>2, <1>4
<1>11. /\ \A i \in 1..Len(l) : i < p => d[l[i]] <= d[t]
       /\ \A i \in 1..Len(l) : p <= i => d[t] <= d[l[i]]
  <2>1. \A i \in 1..Len(l) : d[l[i]] = timeout_tick[l[i]]
    BY <1>5, <1>8, Places
  <2> QED BY <1>4, <1>7, <2>1
<1>12. SortedBy(list', d) /\ PatientBy(list', d, run, Patience)
  BY <1>1, <1>4, <1>5, <1>7, <1>9, <1>10, <1>11, LinkKeeps
<1>13. list' \in Seq(Timer) /\ NoDup(list') /\ ToSet(list') = ToSet(l) \cup {t}
  BY <1>5, <1>7, ListAddBeforeProperties
<1>14. Deadlines'
  <2>1. ASSUME NEW u \in ToSet(list') PROVE d[u] \in 1..(run + TickMax)
    BY <1>2, <1>4, <1>5, <1>8, <1>13, <2>1 DEF Inv, Deadlines
  <2> QED BY <1>3, <2>1 DEF Deadlines
<1>15. TimersTyped'
  BY <1>1, <1>3, <1>4, <1>13 DEF Inv, TimersTyped
<1> QED BY <1>3, <1>12, <1>14, <1>15 DEF Inv

(***************************************************************************)
(* Unlinking a timer: its tick is cleared, the others keep theirs.         *)
(***************************************************************************)
LEMMA RemoveSteps ==
  ASSUME Inv, NEW t \in Timer, timer_remove(t)
  PROVE  /\ list' \in Seq(Timer) /\ NoDup(list') /\ ToSet(list') = ToSet(list) \ {t}
         /\ timeout_tick' \in [Timer -> Nat]
         /\ \A u \in ToSet(list') : timeout_tick'[u] = timeout_tick[u]
<1>1. list \in Seq(Timer) /\ NoDup(list) /\ timeout_tick \in [Timer -> Nat]
  BY DEF Inv, TimersTyped
<1>2. list' = ListDel(list, t) /\ timeout_tick' = [timeout_tick EXCEPT ![t] = 0]
  BY DEF timer_remove
<1>3. list' \in Seq(Timer) /\ NoDup(list') /\ ToSet(list') = ToSet(list) \ {t}
  BY <1>1, <1>2, ListDelProperties
<1>4. \A u \in ToSet(list) : u \in Timer
  BY <1>1, Places
<1> QED BY <1>1, <1>2, <1>3, <1>4

(***************************************************************************)
(* Stopping a timer.                                                       *)
(***************************************************************************)
LEMMA StopStep ==
  ASSUME IsFiniteSet(Timer), Inv, NEW t \in Timer, Stop(t)
  PROVE  Inv'
<1>1. timer_remove(t) /\ run' = run /\ phase' = phase /\ Patience' = Patience
  BY DEF Stop, Patience
<1>2. /\ list' \in Seq(Timer) /\ NoDup(list') /\ ToSet(list') = ToSet(list) \ {t}
      /\ timeout_tick' \in [Timer -> Nat]
      /\ \A u \in ToSet(list') : timeout_tick'[u] = timeout_tick[u]
  BY <1>1, RemoveSteps
<1>3. /\ list \in Seq(Timer) /\ NoDup(list) /\ timeout_tick \in [Timer -> Nat]
      /\ run \in Nat /\ Patience \in Int /\ list' = ListDel(list, t)
  BY <1>1, PatienceType, WkTimerAssumption DEF Inv, TimersTyped, timer_remove
<1>4. SortedBy(list', timeout_tick) /\ PatientBy(list', timeout_tick, run, Patience)
  BY <1>3, UnlinkKeeps DEF Inv
<1>5. SortedBy(list', timeout_tick') /\ PatientBy(list', timeout_tick', run, Patience)
  BY <1>2, <1>4, SameTicks
<1> QED BY <1>1, <1>2, <1>5 DEF Inv, TimersTyped, Deadlines

(***************************************************************************)
(* Counting a tick: the timers that become due now are no more than fit.   *)
(***************************************************************************)
LEMMA CountStep ==
  ASSUME Unwrapped, IsFiniteSet(Timer), Inv, Count
  PROVE  Inv'
<1>1. /\ list \in Seq(Timer) /\ NoDup(list) /\ timeout_tick \in [Timer -> Nat]
      /\ run \in 0..Horizon /\ run \in Nat /\ Horizon \in Nat /\ TickMax \in Nat /\ U64Max \in Nat
      /\ Horizon <= U64Max
  BY WkTimerAssumption DEF Inv, TimersTyped
<1>2. /\ run' = run + 1 /\ run' \in 0..Horizon /\ list' = list /\ timeout_tick' = timeout_tick
      /\ phase = "run" /\ phase' = "check"
  BY <1>1 DEF Count
<1>3. /\ Patience = Cardinality(Timer) - 1 /\ Patience' = Cardinality(Timer)
      /\ Cardinality(Timer) \in Nat /\ Len(list) <= Cardinality(Timer)
  BY <1>1, <1>2, ShortList DEF Patience
<1>4. ASSUME NEW i \in 1..Len(list), timeout_tick[list[i]] <= run'
      PROVE  run' - timeout_tick[list[i]] + i <= Cardinality(Timer)
  <2>1. timeout_tick[list[i]] \in Nat /\ i \in Nat /\ i <= Len(list) /\ Len(list) \in Nat
    BY <1>1, Places
  <2>2. CASE timeout_tick[list[i]] = run + 1
    BY <1>1, <1>2, <1>3, <2>1, <2>2
  <2>3. CASE timeout_tick[list[i]] <= run
    <3>1. run - timeout_tick[list[i]] + i <= Cardinality(Timer) - 1
      BY <1>3, <2>3 DEF Inv, PatientBy
    <3> QED BY <3>1, <1>1, <1>2, <1>3, <2>1
  <2> QED BY <1>1, <1>2, <1>4, <2>1, <2>2, <2>3
<1>5. PatientBy(list, timeout_tick, run', Cardinality(Timer))
  BY <1>4 DEF PatientBy
<1>6. \A t \in ToSet(list) : timeout_tick[t] \in 1..(run + 1 + TickMax)
  BY <1>1 DEF Inv, Deadlines
<1> QED BY <1>1, <1>2, <1>3, <1>5, <1>6 DEF Inv, TimersTyped, Deadlines

(***************************************************************************)
(* timer_check finds the first timer due if any is.                        *)
(***************************************************************************)
LEMMA HeadDue ==
  ASSUME Unwrapped, Inv
  PROVE  /\ list # <<>> => list[1] \in Timer /\ list[1] \in ToSet(list)
         /\ HeadTimedOut <=> list # <<>> /\ timeout_tick[list[1]] <= run
<1>1. list \in Seq(Timer) /\ run \in 0..Horizon /\ run \in Nat /\ TickMax \in Nat
  BY WkTimerAssumption DEF Inv, TimersTyped
<1>2. list # <<>> => 1 \in 1..Len(list) /\ Head(list) = list[1]
  BY <1>1
<1>3. list # <<>> => list[1] \in Timer /\ list[1] \in ToSet(list)
  BY <1>1, <1>2, Places
<1>4. list # <<>> => timeout_tick[list[1]] \in 1..(run + TickMax)
  BY <1>3 DEF Inv, Deadlines
<1>5. list # <<>> => get_lave_tick(timeout_tick[list[1]])
                       = IF timeout_tick[list[1]] >= run THEN timeout_tick[list[1]] - run ELSE 0
  BY <1>1, <1>4, LaveTick
<1>6. list # <<>> => (get_lave_tick(timeout_tick[list[1]]) = 0 <=> timeout_tick[list[1]] <= run)
  BY <1>1, <1>4, <1>5
<1> QED BY <1>2, <1>3, <1>6 DEF HeadTimedOut

LEMMA FirstIsSoonest ==
  ASSUME Inv, list # <<>>, NEW i \in 1..Len(list)
  PROVE  timeout_tick[list[1]] <= timeout_tick[list[i]]
<1>1. list \in Seq(Timer) /\ timeout_tick \in [Timer -> Nat]
  BY DEF Inv, TimersTyped
<1>2. timeout_tick[list[i]] \in Nat /\ 1 \in 1..Len(list) /\ (i = 1 \/ 1 < i)
  BY <1>1, Places
<1> QED BY <1>2 DEF Inv, SortedBy

(***************************************************************************)
(* timer_check: one timer is served, and no timer waits without progress.  *)
(***************************************************************************)
LEMMA CheckStep ==
  ASSUME Unwrapped, IsFiniteSet(Timer), Inv, Check
  PROVE  Inv'
<1>1. /\ list \in Seq(Timer) /\ NoDup(list) /\ timeout_tick \in [Timer -> Nat]
      /\ run \in 0..Horizon /\ run \in Nat
  BY WkTimerAssumption DEF Inv, TimersTyped
<1>2. /\ run' = run /\ phase = "check" /\ phase' = "run"
      /\ Patience = Cardinality(Timer) /\ Patience' = Patience - 1 /\ Patience \in Int
  BY PatienceType DEF Check, Patience
<1>3. CASE HeadTimedOut
  <2>1. list # <<>> /\ list[1] \in Timer /\ timer_remove(list[1])
    BY <1>1, <1>3, HeadDue DEF Check
  <2>2. /\ list' \in Seq(Timer) /\ NoDup(list') /\ ToSet(list') = ToSet(list) \ {list[1]}
        /\ timeout_tick' \in [Timer -> Nat]
        /\ \A u \in ToSet(list') : timeout_tick'[u] = timeout_tick[u]
    BY <2>1, RemoveSteps
  <2>3. list' = ListDel(list, list[1])
    BY <2>1 DEF timer_remove
  <2>4. SortedBy(list', timeout_tick)
    BY <1>1, <1>2, <2>3, UnlinkKeeps DEF Inv
  <2>5. PatientBy(list', timeout_tick, run, Patience - 1)
    BY <1>1, <1>2, <2>1, <2>3, ServingKeeps DEF Inv
  <2>6. SortedBy(list', timeout_tick') /\ PatientBy(list', timeout_tick', run, Patience - 1)
    BY <2>2, <2>4, <2>5, SameTicks
  <2> QED BY <1>1, <1>2, <2>2, <2>6 DEF Inv, TimersTyped, Deadlines
<1>4. CASE ~HeadTimedOut
  <2>1. list' = list /\ timeout_tick' = timeout_tick
    BY <1>4 DEF Check
  <2>2. ASSUME NEW i \in 1..Len(list) PROVE ~(timeout_tick[list[i]] <= run)
    <3>1. list # <<>> /\ ~(timeout_tick[list[1]] <= run)
      BY <1>1, <1>4, HeadDue
    <3>2. timeout_tick[list[1]] <= timeout_tick[list[i]]
      BY <3>1, FirstIsSoonest
    <3>3. timeout_tick[list[1]] \in Nat /\ timeout_tick[list[i]] \in Nat
      BY <1>1, <3>1, HeadDue, Places
    <3> QED BY <1>1, <3>1, <3>2, <3>3
  <2>3. PatientBy(list, timeout_tick, run, Patience - 1)
    BY <2>2 DEF PatientBy
  <2> QED BY <1>1, <1>2, <2>1, <2>3 DEF Inv, TimersTyped, Deadlines
<1> QED BY <1>3, <1>4

-----------------------------------------------------------------------------
(***************************************************************************)
(* The invariant holds initially and every step preserves it.              *)
(***************************************************************************)
LEMMA InvInit ==
  ASSUME IsFiniteSet(Timer), Init
  PROVE  Inv
<1>1. list = <<>> /\ Len(list) = 0 /\ 1..Len(list) = {} /\ ToSet(list) = {}
  BY DEF Init, ToSet
<1>2. list \in Seq(Timer) /\ NoDup(list)
  BY <1>1 DEF NoDup
<1>3. timeout_tick \in [Timer -> Nat] /\ run \in 0..Horizon /\ phase \in {"run", "check"}
  BY WkTimerAssumption DEF Init
<1> QED BY <1>1, <1>2, <1>3 DEF Inv, TimersTyped, Deadlines, SortedBy, PatientBy

LEMMA InvNext ==
  ASSUME Unwrapped, IsFiniteSet(Timer), Inv, [Next]_vars
  PROVE  Inv'
<1>1. CASE UNCHANGED vars
  BY <1>1 DEF vars, Inv, TimersTyped, Deadlines, Patience
<1>2. ASSUME NEW t \in Timer, Stop(t) PROVE Inv'
  BY <1>2, StopStep
<1>3. ASSUME NEW t \in Timer, NEW n \in InitTicks, Start(t, n) PROVE Inv'
  BY <1>3, StartStep
<1>4. CASE Count
  BY <1>4, CountStep
<1>5. CASE Check
  BY <1>5, CheckStep
<1> QED BY <1>1, <1>2, <1>3, <1>4, <1>5 DEF Next

LEMMA Late ==
  ASSUME Inv, IsFiniteSet(Timer)
  PROVE  BoundedLateness
<1>1. /\ list \in Seq(Timer) /\ timeout_tick \in [Timer -> Nat] /\ run \in Nat /\ Patience \in Int
  BY PatienceType, WkTimerAssumption DEF Inv, TimersTyped
<1>2. SUFFICES ASSUME NEW t \in ToSet(list)
      PROVE  run - timeout_tick[t] < Patience
  BY DEF BoundedLateness, Patience
<1>3. PICK i \in 1..Len(list) : t = list[i]
  BY <1>1, Places
<1>4. timeout_tick[t] \in Nat /\ i \in Nat \ {0}
  BY <1>1, <1>3, Places
<1>5. CASE timeout_tick[t] <= run
  <2>1. run - timeout_tick[t] + i <= Patience
    BY <1>3, <1>5 DEF Inv, PatientBy
  <2> QED BY <1>1, <1>4, <2>1
<1>6. CASE ~(timeout_tick[t] <= run)
  <2>1. Len(list) \in Nat \ {0} /\ Len(list) <= Cardinality(Timer) /\ Cardinality(Timer) \in Nat
    BY <1>1, <1>3, ShortList, Places DEF Inv, TimersTyped
  <2>2. Patience >= 0
    BY <2>1 DEF Patience
  <2> QED BY <1>1, <1>4, <1>6, <2>2
<1> QED BY <1>5, <1>6

LEMMA Served ==
  ASSUME Unwrapped, Inv, [Next]_vars
  PROVE  ServeStep
<1>1. /\ list \in Seq(Timer) /\ NoDup(list) /\ timeout_tick \in [Timer -> Nat]
  BY DEF Inv, TimersTyped
<1>2. SUFFICES ASSUME phase = "check", phase' = "run", NEW t \in ToSet(list) \ ToSet(list')
      PROVE  /\ timeout_tick[t] <= run
             /\ \A u \in ToSet(list) : timeout_tick[t] <= timeout_tick[u]
  BY DEF ServeStep
<1>3. Check
  BY <1>2 DEF Next, vars, Stop, Start, Count
<1>4. HeadTimedOut /\ timer_remove(Head(list))
  BY <1>2, <1>3 DEF Check
<1>5. list # <<>> /\ timeout_tick[list[1]] <= run /\ list[1] \in Timer
  BY <1>4, HeadDue
<1>6. ToSet(list') = ToSet(list) \ {list[1]}
  BY <1>1, <1>4, <1>5, ListDelProperties DEF timer_remove
<1>7. t = list[1]
  BY <1>6
<1>8. ASSUME NEW u \in ToSet(list) PROVE timeout_tick[t] <= timeout_tick[u]
  <2>1. PICK i \in 1..Len(list) : u = list[i]
    BY <1>1, Places
  <2> QED BY <1>5, <1>7, <2>1, FirstIsSoonest
<1> QED BY <1>5, <1>7, <1>8

(***************************************************************************)
(* No timer is served much later than its tick, however the timers are     *)
(* started, stopped and restarted, for any number of timers.               *)
(***************************************************************************)
THEOREM NeverTooLate ==
  ASSUME Unwrapped, IsFiniteSet(Timer)
  PROVE  Spec => []BoundedLateness
<1>1. Init => Inv
  BY InvInit
<1>2. Inv /\ [Next]_vars => Inv'
  BY InvNext
<1>3. Inv => BoundedLateness
  BY Late
<1> QED BY <1>1, <1>2, <1>3, PTL DEF Spec

(***************************************************************************)
(* timer_check serves no timer early, and the soonest first.               *)
(***************************************************************************)
THEOREM SoonestFirst ==
  ASSUME Unwrapped, IsFiniteSet(Timer)
  PROVE  Spec => ServedInOrder
<1>1. Init => Inv
  BY InvInit
<1>2. Inv /\ [Next]_vars => Inv'
  BY InvNext
<1>3. Inv /\ [Next]_vars => [ServeStep]_vars
  BY Served
<1> QED BY <1>1, <1>2, <1>3, PTL DEF Spec, ServedInOrder

-----------------------------------------------------------------------------
(***************************************************************************)
(* The operators of TimerRel, which is instantiated, are those of this     *)
(* module.                                                                 *)
(***************************************************************************)
LEMMA RelMin ==
  ASSUME NEW S
  PROVE  Rel!Min(S) = Min(S)
BY DEF Rel!Min, Min

LEMMA RelLists ==
  /\ \A l, i, e : Rel!ListAddBefore(l, i, e) = ListAddBefore(l, i, e)
  /\ \A l, i : Rel!RemoveAt(l, i) = RemoveAt(l, i)
  /\ \A m : Rel!Armed(m) = ToSet(m.list)
BY DEF Rel!ListAddBefore, ListAddBefore, Rel!InsertAt, InsertAt, Rel!RemoveAt, RemoveAt,
       Rel!Armed, Rel!ToSet, ToSet

LEMMA RelListDel ==
  ASSUME NEW s \in Seq(Timer), NoDup(s), NEW e
  PROVE  Rel!ListDel(s, e) = ListDel(s, e)
<1>1. CASE e \notin ToSet(s)
  <2>1. ~ \E i \in 1..Len(s) : s[i] = e
    BY <1>1, Places
  <2>2. Rel!RemoveFirst(s, e) = s
    BY <2>1 DEF Rel!RemoveFirst
  <2> QED BY <1>1, <2>2, ListDelAbsent DEF Rel!ListDel
<1>2. CASE e \in ToSet(s)
  <2>1. PICK k \in 1..Len(s) : e = s[k]
    BY <1>2, Places
  <2>2. {i \in 1..Len(s) : s[i] = s[k]} = {k}
    BY DEF NoDup
  <2>3. Min({k}) = k
    <3>1. k \in {k} /\ \A y \in {k} : k =< y
      OBVIOUS
    <3>2. \A x \in {k} : x = k
      OBVIOUS
    <3> QED BY <3>1, <3>2 DEF Min
  <2>4. Rel!SelectInSeq(s, LAMBDA v : v = s[k]) = k
    BY <2>2, <2>3, RelMin DEF Rel!SelectInSeq
  <2>5. Rel!RemoveFirst(s, s[k]) = Rel!RemoveAt(s, k)
    BY <2>4 DEF Rel!RemoveFirst
  <2> QED BY <2>1, <2>5, ListDelPresent, RelLists DEF Rel!ListDel
<1> QED BY <1>1, <1>2

(***************************************************************************)
(* The ticks left of a listed timer; the others have none.                 *)
(***************************************************************************)
LEMMA LaveOf ==
  ASSUME Unwrapped, Inv
  PROVE  /\ Lave \in [Timer -> Nat]
         /\ \A t \in Timer :
              Lave[t] = IF t \in ToSet(list) /\ timeout_tick[t] >= run
                        THEN timeout_tick[t] - run ELSE 0
         /\ \A t \in ToSet(list) : t \in Timer /\ Lave[t] = get_lave_tick(timeout_tick[t])
<1>1. /\ list \in Seq(Timer) /\ timeout_tick \in [Timer -> Nat] /\ run \in 0..Horizon /\ run \in Nat
  BY WkTimerAssumption DEF Inv, TimersTyped
<1>2. \A t \in ToSet(list) : t \in Timer /\ Lave[t] = get_lave_tick(timeout_tick[t])
  BY <1>1, Places DEF Lave
<1>3. \A t \in ToSet(list) :
        get_lave_tick(timeout_tick[t]) = IF timeout_tick[t] >= run THEN timeout_tick[t] - run ELSE 0
  BY <1>1, LaveTick DEF Inv, Deadlines
<1>4. \A t \in Timer : t \notin ToSet(list) => Lave[t] = 0
  BY DEF Lave
<1>5. \A t \in Timer :
        Lave[t] = IF t \in ToSet(list) /\ timeout_tick[t] >= run
                  THEN timeout_tick[t] - run ELSE 0
  BY <1>2, <1>3, <1>4
<1>6. \A t \in Timer : Lave[t] \in Nat
  BY <1>1, <1>5
<1>7. DOMAIN Lave = Timer /\ Lave = [t \in Timer |-> Lave[t]]
  BY DEF Lave
<1>8. Lave \in [Timer -> Nat]
  BY <1>6, <1>7
<1> QED BY <1>2, <1>5, <1>8

\* The timers as TimerRel sees them.
Mapped == [list |-> list, lave |-> Lave]

LEMMA RelStop ==
  ASSUME Unwrapped, Inv, NEW t \in Timer, timer_remove(t), run' = run
  PROVE  Mapped' = Rel!timer_stop(Mapped, t)
<1>1. list \in Seq(Timer) /\ NoDup(list) /\ timeout_tick \in [Timer -> Nat]
  BY DEF Inv, TimersTyped
<1>2. /\ ToSet(list') = ToSet(list) \ {t}
      /\ \A u \in ToSet(list') : timeout_tick'[u] = timeout_tick[u]
  BY RemoveSteps
<1>3. list' = Rel!ListDel(list, t)
  BY <1>1, RelListDel DEF timer_remove
<1>4. Lave' = [Lave EXCEPT ![t] = 0]
  <2>1. \A d : get_lave_tick(d)' = get_lave_tick(d)
    BY DEF get_lave_tick
  <2> QED BY <1>2, <2>1 DEF Lave
<1> QED BY <1>3, <1>4 DEF Mapped, Rel!timer_stop

LEMMA RelStart ==
  ASSUME Unwrapped, IsFiniteSet(Timer), Inv, NEW t \in Timer, NEW n \in InitTicks, Start(t, n)
  PROVE  Mapped' = Rel!timer_start(Mapped, t, n)
<1> DEFINE l == ListDel(list, t)
           p == Min({i \in 1..Len(l) :
                       ~ \/ get_lave_tick(timeout_tick[l[i]]) < get_lave_tick(TimeoutTick(n))
                         \/ /\ get_lave_tick(timeout_tick[l[i]]) = get_lave_tick(TimeoutTick(n))
                            /\ TimerPriority[l[i]] <= TimerPriority[t]} \cup {Len(l) + 1})
           q == Min({i \in 1..Len(l) :
                       \/ Lave[l[i]] > n
                       \/ Lave[l[i]] = n /\ TimerPriority[l[i]] > TimerPriority[t]} \cup {Len(l) + 1})
<1>1. /\ list \in Seq(Timer) /\ NoDup(list) /\ timeout_tick \in [Timer -> Nat]
      /\ run \in 0..Horizon /\ run \in Nat
  BY WkTimerAssumption DEF Inv, TimersTyped
<1>2. n \in Nat /\ TimeoutTick(n) = run + n /\ run + n \in Nat /\ get_lave_tick(TimeoutTick(n)) = n
  BY <1>1, StartTick
<1>3. l \in Seq(Timer) /\ NoDup(l) /\ ToSet(l) = ToSet(list) \ {t}
  BY <1>1, ListDelProperties
<1>4. list' = ListAddBefore(l, p, t) /\ timeout_tick' = [timeout_tick EXCEPT ![t] = run + n] /\ run' = run
  BY <1>2 DEF Start
<1>5. \A i \in 1..Len(l) : /\ l[i] \in Timer /\ Lave[l[i]] = get_lave_tick(timeout_tick[l[i]])
                           /\ Lave[l[i]] \in Nat
  <2>1. \A i \in 1..Len(l) : l[i] \in ToSet(list) /\ l[i] \in Timer
    BY <1>3, Places
  <2> QED BY <2>1, LaveOf
<1>6. ASSUME NEW i \in 1..Len(l)
      PROVE  (~ \/ get_lave_tick(timeout_tick[l[i]]) < get_lave_tick(TimeoutTick(n))
                \/ /\ get_lave_tick(timeout_tick[l[i]]) = get_lave_tick(TimeoutTick(n))
                   /\ TimerPriority[l[i]] <= TimerPriority[t])
             <=> \/ Lave[l[i]] > n
                 \/ Lave[l[i]] = n /\ TimerPriority[l[i]] > TimerPriority[t]
  <2>1. Lave[l[i]] \in Nat /\ get_lave_tick(timeout_tick[l[i]]) = Lave[l[i]]
    BY <1>5
  <2>2. TimerPriority[l[i]] \in Nat /\ TimerPriority[t] \in Nat
    BY <1>5, TimerOpsAssumption
  <2>3. get_lave_tick(TimeoutTick(n)) = n /\ n \in Nat
    BY <1>2
  <2> QED BY <2>1, <2>2, <2>3
<1>7. p = q
  BY <1>6
<1>8. q = Rel!FirstLater(Mapped, l, t, n)
  BY RelMin DEF Mapped, Rel!FirstLater
<1>9. Rel!ListDel(list, t) = l
  BY <1>1, RelListDel
<1>10. list' = Rel!ListAddBefore(l, q, t)
  BY <1>4, <1>7, RelLists
<1>11. Lave' = [Lave EXCEPT ![t] = n]
  <2>1. ToSet(list') = ToSet(list) \cup {t}
    <3>1. p \in 1..(Len(l) + 1)
      <4> DEFINE S == {i \in 1..Len(l) :
                       ~ \/ get_lave_tick(timeout_tick[l[i]]) < get_lave_tick(TimeoutTick(n))
                         \/ /\ get_lave_tick(timeout_tick[l[i]]) = get_lave_tick(TimeoutTick(n))
                            /\ TimerPriority[l[i]] <= TimerPriority[t]} \cup {Len(l) + 1}
      <4>1. Len(l) \in Nat
        BY <1>3, Places
      <4>2. S \subseteq 1..(Len(l) + 1) /\ S \in SUBSET Nat /\ S # {}
        BY <4>1
      <4> HIDE DEF S
      <4> QED BY <4>2, MinProperties DEF S
    <3> HIDE DEF p
    <3>2. t \notin ToSet(l)
      BY <1>3
    <3> QED BY <1>3, <1>4, <3>1, <3>2, ListAddBeforeProperties
  <2>2. \A u \in Timer : Lave'[u] = IF u = t THEN n ELSE Lave[u]
    <3>1. \A d : get_lave_tick(d)' = get_lave_tick(d)
      BY <1>4 DEF get_lave_tick
    <3>2. Lave' = [u \in Timer |-> IF u \in ToSet(list') THEN get_lave_tick(timeout_tick'[u]) ELSE 0]
      BY <1>4, <3>1 DEF Lave, get_lave_tick
    <3> QED BY <1>1, <1>2, <1>4, <2>1, <3>2 DEF Lave
  <2>3. Lave' = [u \in Timer |-> Lave'[u]]
    BY DEF Lave
  <2> QED BY <2>2, <2>3, LaveOf
<1> HIDE DEF l, q
<1>12. Rel!timer_start(Mapped, t, n)
         = [list |-> Rel!ListAddBefore(l, q, t), lave |-> [Lave EXCEPT ![t] = n]]
  BY <1>8, <1>9 DEF Rel!timer_start, Mapped
<1> QED BY <1>10, <1>11, <1>12 DEF Mapped

LEMMA RelCount ==
  ASSUME Unwrapped, IsFiniteSet(Timer), Inv, Count
  PROVE  Mapped' = Rel!run_tick(Mapped)
<1>1. /\ list \in Seq(Timer) /\ timeout_tick \in [Timer -> Nat] /\ run \in Nat
      /\ run \in 0..Horizon /\ Horizon <= U64Max /\ U64Max \in Nat /\ Horizon \in Nat
  BY WkTimerAssumption DEF Inv, TimersTyped
<1>2. list' = list /\ timeout_tick' = timeout_tick /\ run' = run + 1
  BY <1>1 DEF Count
<1>3. Inv'
  BY CountStep
<1>4. \A t \in Timer :
        Lave'[t] = IF t \in ToSet(list) /\ timeout_tick[t] >= run + 1
                   THEN timeout_tick[t] - (run + 1) ELSE 0
  <2>1. \A t \in Timer :
          Lave'[t] = IF t \in ToSet(list') /\ timeout_tick'[t] >= run'
                     THEN timeout_tick'[t] - run' ELSE 0
    <3>1. Unwrapped'
      BY DEF Unwrapped
    <3>2. (Unwrapped /\ Inv =>
             \A t \in Timer :
               Lave[t] = IF t \in ToSet(list) /\ timeout_tick[t] >= run
                         THEN timeout_tick[t] - run ELSE 0)'
      BY LaveOf, PTL
    <3> QED BY <1>3, <3>1, <3>2
  <2> QED BY <1>2, <2>1
<1>5. ASSUME NEW t \in Timer
      PROVE  Lave'[t] = IF Lave[t] = 0 THEN 0 ELSE Lave[t] - 1
  <2>1. timeout_tick[t] \in Nat
    BY <1>1
  <2>2. Lave[t] = IF t \in ToSet(list) /\ timeout_tick[t] >= run
                  THEN timeout_tick[t] - run ELSE 0
    BY LaveOf
  <2> QED BY <1>1, <1>4, <2>1, <2>2
<1>6. Lave' = [t \in Timer |-> Lave'[t]]
  BY DEF Lave
<1>7. Lave' = [t \in Timer |-> IF Lave[t] = 0 THEN 0 ELSE Lave[t] - 1]
  BY <1>5, <1>6
<1> QED BY <1>2, <1>7 DEF Mapped, Rel!run_tick

(***************************************************************************)
(* Each step is the same step of the countdown.                            *)
(***************************************************************************)
LEMMA RelNext ==
  ASSUME Unwrapped, IsFiniteSet(Timer), Inv, [Next]_vars
  PROVE  [Rel!Next]_(Rel!vars)
<1>0. Rel!vars = <<Mapped, phase>>
  BY DEF Rel!vars, Mapped
<1>1. CASE UNCHANGED vars
  BY <1>1 DEF vars, Rel!vars, Lave, get_lave_tick
<1>2. ASSUME NEW t \in Timer, Stop(t) PROVE Rel!Next
  <2>1. Mapped' = Rel!timer_stop(Mapped, t) /\ phase' = phase
    BY <1>2, RelStop DEF Stop
  <2>2. t \in Rel!Armed(Mapped)
    BY <1>2, RelLists DEF Stop, Mapped
  <2>3. Rel!Stop(t)
    BY <2>1, <2>2 DEF Rel!Stop, Mapped
  <2> QED BY <2>3 DEF Rel!Next
<1>3. ASSUME NEW t \in Timer, NEW n \in InitTicks, Start(t, n) PROVE Rel!Next
  <2>1. Mapped' = Rel!timer_start(Mapped, t, n) /\ phase' = phase
    BY <1>3, RelStart DEF Start
  <2>2. Rel!Start(t, n)
    BY <2>1 DEF Rel!Start, Mapped
  <2> QED BY <2>2 DEF Rel!Next
<1>4. CASE Count
  <2>1. Mapped' = Rel!run_tick(Mapped) /\ phase = "run" /\ phase' = "check"
    BY <1>4, RelCount DEF Count
  <2>2. Rel!Count
    BY <2>1 DEF Rel!Count, Mapped
  <2> QED BY <2>2 DEF Rel!Next
<1>5. CASE Check
  <2>1. list \in Seq(Timer) /\ run' = run /\ phase = "check" /\ phase' = "run"
    BY <1>5 DEF Check, Inv, TimersTyped
  <2>2. HeadTimedOut <=> Rel!HeadIsDue(Mapped)
    <3>1. list # <<>> => Head(list) \in ToSet(list)
      BY <2>1, HeadDue
    <3>2. list # <<>> => Lave[Head(list)] = get_lave_tick(timeout_tick[Head(list)])
      BY <3>1, LaveOf
    <3> QED BY <3>2 DEF HeadTimedOut, Rel!HeadIsDue, Mapped
  <2>3. CASE HeadTimedOut
    <3>1. Head(list) \in Timer /\ timer_remove(Head(list))
      BY <1>5, <2>1, <2>3, HeadDue DEF Check, HeadTimedOut
    <3>2. Mapped' = Rel!timer_stop(Mapped, Head(list))
      BY <2>1, <3>1, RelStop
    <3>3. Rel!Check
      BY <2>1, <2>2, <2>3, <3>2 DEF Rel!Check, Mapped
    <3> QED BY <3>3 DEF Rel!Next
  <2>4. CASE ~HeadTimedOut
    <3>1. Mapped' = Mapped
      BY <1>5, <2>1, <2>4 DEF Check, Mapped, Lave, get_lave_tick
    <3>2. Rel!Check
      BY <2>1, <2>2, <2>4, <3>1 DEF Rel!Check, Mapped
    <3> QED BY <3>2 DEF Rel!Next
  <2> QED BY <2>3, <2>4
<1> QED BY <1>1, <1>2, <1>3, <1>4, <1>5 DEF Next

LEMMA RelInit ==
  ASSUME Init
  PROVE  Rel!Init
<1>1. list = <<>> /\ ToSet(list) = {} /\ phase = "run"
  BY DEF Init, ToSet
<1>2. Lave = [t \in Timer |-> 0]
  BY <1>1 DEF Lave
<1> QED BY <1>1, <1>2 DEF Rel!Init, Rel!TimerInit

(***************************************************************************)
(* The absolute ticks of kernel/timer.c implement the countdown on which   *)
(* the tasks rely.                                                         *)
(***************************************************************************)
THEOREM TicksCountDown ==
  ASSUME Unwrapped, IsFiniteSet(Timer)
  PROVE  Spec => Countdown
<1>1. Init => Inv /\ Rel!Init
  BY InvInit, RelInit
<1>2. Inv /\ [Next]_vars => Inv' /\ [Rel!Next]_(Rel!vars)
  BY InvNext, RelNext
<1> QED BY <1>1, <1>2, PTL DEF Spec, Countdown, Rel!Spec

=============================================================================
