-------------------------- MODULE TimerOpsProofs --------------------------
(***************************************************************************)
(* Lemmas about the list operators (what unlinking and linking a node does *)
(* to a list without duplicates) and about the timer operators built on    *)
(* them, for any timers and priorities.                                    *)
(***************************************************************************)
EXTENDS TimerOps, SequenceTheorems, WellFoundedInduction, TLAPS

(***************************************************************************)
(* Unlinking a node that is not on the list changes nothing.               *)
(***************************************************************************)
LEMMA ListDelAbsent ==
  ASSUME NEW T, NEW s \in Seq(T), NEW e, e \notin ToSet(s)
  PROVE  ListDel(s, e) = s
BY DEF ListDel, RemoveFirst, ToSet

(***************************************************************************)
(* On a list without duplicates, unlinking the k-th node takes out exactly *)
(* the k-th place.                                                         *)
(***************************************************************************)
LEMMA ListDelPresent ==
  ASSUME NEW T, NEW s \in Seq(T), NoDup(s), NEW k \in 1..Len(s)
  PROVE  ListDel(s, s[k]) = RemoveAt(s, k)
<1>1. {i \in 1..Len(s) : s[i] = s[k]} = {k}
  BY DEF NoDup
<1>2. Min({k}) = k
  <2>1. k \in {k} /\ \A y \in {k} : k =< y
    OBVIOUS
  <2>2. \A x \in {k} : x = k
    OBVIOUS
  <2> QED BY <2>1, <2>2 DEF Min
<1>3. SelectInSeq(s, LAMBDA v : v = s[k]) = k
  BY <1>1, <1>2 DEF SelectInSeq
<1> QED
  BY <1>3 DEF ListDel, RemoveFirst

(***************************************************************************)
(* Taking out one place of a list moves the nodes behind it one forward.   *)
(***************************************************************************)
LEMMA RemoveAtPlaces ==
  ASSUME NEW T, NEW s \in Seq(T), NEW k \in 1..Len(s)
  PROVE  /\ RemoveAt(s, k) \in Seq(T)
         /\ Len(RemoveAt(s, k)) = Len(s) - 1
         /\ \A i \in 1..(Len(s)-1) :
              RemoveAt(s, k)[i] = IF i < k THEN s[i] ELSE s[i+1]
<1> DEFINE a == SubSeq(s, 1, k-1)
           b == SubSeq(s, k+1, Len(s))
           r == a \o b
<1>0. /\ DOMAIN s = 1..Len(s)
      /\ \A i \in 1..Len(s) : s[i] \in T
      /\ Len(s) \in Nat
  OBVIOUS
<1>1. a \in Seq(T) /\ Len(a) = k-1 /\ \A i \in 1..k-1 : a[i] = s[i]
  <2>1. \A i \in 1..(k-1) : s[i] \in T
    BY <1>0
  <2> QED BY <2>1, <1>0, SubSeqProperties
<1>2. b \in Seq(T) /\ Len(b) = Len(s)-k /\ \A i \in 1..(Len(s)-k) : b[i] = s[k+i]
  <2>1. \A i \in (k+1)..Len(s) : s[i] \in T
    BY <1>0
  <2>2. /\ b \in Seq(T)
        /\ Len(b) = IF k+1 <= Len(s) THEN Len(s)-(k+1)+1 ELSE 0
        /\ \A i \in 1..(Len(s)-(k+1)+1) : b[i] = s[(k+1)+i-1]
    BY <2>1, <1>0, SubSeqProperties
  <2>3. Len(s)-(k+1)+1 = Len(s)-k /\ \A i \in 1..(Len(s)-k) : (k+1)+i-1 = k+i
    BY <1>0
  <2> HIDE DEF a, b, r
  <2>4. Len(b) = Len(s) - k
    <3>1. CASE k = Len(s)
      BY <3>1, <2>2, <1>0
    <3>2. CASE k < Len(s)
      <4>1. k + 1 <= Len(s) /\ Len(s) - (k+1) + 1 = Len(s) - k
        BY <3>2, <1>0
      <4> QED BY <4>1, <2>2
    <3>3. k = Len(s) \/ k < Len(s)
      <4>1. Len(s) \in Int /\ k \in Int /\ k <= Len(s)
        BY <1>0
      <4> QED BY <4>1
    <3> QED BY <3>1, <3>2, <3>3
  <2>5. \A i \in 1..(Len(s)-k) : b[i] = s[k+i]
    BY <2>2, <2>3
  <2> QED BY <2>2, <2>4, <2>5
<1>3. /\ r \in Seq(T)
      /\ Len(r) = Len(s) - 1
      /\ \A i \in 1..(Len(s)-1) : r[i] = IF i < k THEN s[i] ELSE s[i+1]
  <2> HIDE DEF a, b
  <2>1. /\ r \in Seq(T) /\ Len(r) = Len(a) + Len(b)
        /\ \A i \in 1..(Len(a)+Len(b)) : r[i] = IF i <= Len(a) THEN a[i] ELSE b[i-Len(a)]
    BY <1>1, <1>2, ConcatProperties
  <2> QED BY <2>1, <1>1, <1>2
<1>4. RemoveAt(s, k) = r
  BY DEF RemoveAt
<1> QED BY <1>3, <1>4

(***************************************************************************)
(* Taking out one place of a list without duplicates leaves a list without *)
(* duplicates that has lost exactly that element.                          *)
(***************************************************************************)
LEMMA RemoveAtProperties ==
  ASSUME NEW T, NEW s \in Seq(T), NoDup(s), NEW k \in 1..Len(s)
  PROVE  /\ RemoveAt(s, k) \in Seq(T)
         /\ NoDup(RemoveAt(s, k))
         /\ ToSet(RemoveAt(s, k)) = ToSet(s) \ {s[k]}
<1> DEFINE r == RemoveAt(s, k)
<1>0. /\ DOMAIN s = 1..Len(s)
      /\ \A i \in 1..Len(s) : s[i] \in T
      /\ Len(s) \in Nat
  OBVIOUS
<1>3. /\ r \in Seq(T)
      /\ Len(r) = Len(s) - 1
      /\ \A i \in 1..(Len(s)-1) : r[i] = IF i < k THEN s[i] ELSE s[i+1]
  BY RemoveAtPlaces
<1> HIDE DEF r
<1>5. DOMAIN r = 1..(Len(s)-1)
  BY <1>3
<1>6. NoDup(r)
  BY <1>0, <1>3, <1>5 DEF NoDup
<1>7. ToSet(r) = ToSet(s) \ {s[k]}
  <2>1. ASSUME NEW x \in ToSet(r) PROVE x \in ToSet(s) \ {s[k]}
    <3>1. PICK i \in 1..(Len(s)-1) : x = r[i]
      BY <1>5 DEF ToSet
    <3>2. PICK j \in 1..Len(s) : x = s[j] /\ j # k
      <4>1. CASE i < k
        BY <4>1, <3>1, <1>0, <1>3
      <4>2. CASE i >= k
        <5>1. i+1 \in 1..Len(s) /\ i+1 # k /\ x = s[i+1]
          BY <4>2, <3>1, <1>0, <1>3
        <5> QED BY <5>1
      <4> QED BY <4>1, <4>2
    <3> QED BY <3>2, <1>0 DEF NoDup, ToSet
  <2>2. ASSUME NEW x \in ToSet(s) \ {s[k]} PROVE x \in ToSet(r)
    <3>1. PICK i \in 1..Len(s) : x = s[i]
      BY <1>0 DEF ToSet
    <3>2. CASE i < k
      <4>1. i \in 1..(Len(s)-1) /\ r[i] = x
        BY <3>1, <3>2, <1>3, <1>0
      <4> QED BY <4>1, <1>5 DEF ToSet
    <3>3. CASE i > k
      <4>1. i-1 \in 1..(Len(s)-1) /\ r[i-1] = x
        BY <3>1, <3>3, <1>3, <1>0
      <4> QED BY <4>1, <1>5 DEF ToSet
    <3> QED BY <3>1, <3>2, <3>3
  <2> QED BY <2>1, <2>2
<1> QED
  BY <1>3, <1>6, <1>7 DEF r

(***************************************************************************)
(* list_del, whether the node is on the list or not.                       *)
(***************************************************************************)
LEMMA ListDelProperties ==
  ASSUME NEW T, NEW s \in Seq(T), NoDup(s), NEW e
  PROVE  /\ ListDel(s, e) \in Seq(T)
         /\ NoDup(ListDel(s, e))
         /\ ToSet(ListDel(s, e)) = ToSet(s) \ {e}
<1>1. CASE e \in ToSet(s)
  <2>1. PICK k \in 1..Len(s) : e = s[k]
    BY <1>1 DEF ToSet
  <2> QED BY <2>1, ListDelPresent, RemoveAtProperties
<1>2. CASE e \notin ToSet(s)
  BY <1>2, ListDelAbsent
<1> QED BY <1>1, <1>2

\* l is s without its k-th place, or s itself if it has no k-th place.
Without(l, s, k) ==
  /\ Len(l) = IF k <= Len(s) THEN Len(s) - 1 ELSE Len(s)
  /\ \A i \in 1..Len(l) : l[i] = IF i < k THEN s[i] ELSE s[i+1]

(***************************************************************************)
(* list_del leaves the other nodes in their order.                         *)
(***************************************************************************)
LEMMA ListDelPlaces ==
  ASSUME NEW T, NEW s \in Seq(T), NoDup(s), NEW e
  PROVE  \E k \in 1..(Len(s) + 1) : Without(ListDel(s, e), s, k)
<1>0. DOMAIN s = 1..Len(s) /\ Len(s) \in Nat
  OBVIOUS
<1>1. CASE e \in ToSet(s)
  <2>1. PICK k \in 1..Len(s) : e = s[k]
    BY <1>0, <1>1 DEF ToSet
  <2>2. ListDel(s, e) = RemoveAt(s, k)
    BY <2>1, ListDelPresent
  <2>3. Len(ListDel(s, e)) = Len(s) - 1
    BY <2>2, RemoveAtPlaces
  <2>4. \A i \in 1..Len(ListDel(s, e)) : ListDel(s, e)[i] = IF i < k THEN s[i] ELSE s[i+1]
    BY <2>2, <2>3, RemoveAtPlaces
  <2>5. Without(ListDel(s, e), s, k)
    BY <1>0, <2>3, <2>4 DEF Without
  <2> QED BY <1>0, <2>5
<1>2. CASE e \notin ToSet(s)
  <2>1. ListDel(s, e) = s
    BY <1>2, ListDelAbsent
  <2>2. Without(s, s, Len(s) + 1)
    <3>1. ~(Len(s) + 1 <= Len(s)) /\ \A i \in 1..Len(s) : i < Len(s) + 1
      BY <1>0
    <3> QED BY <3>1, Zenon DEF Without
  <2> QED BY <1>0, <2>1, <2>2
<1> QED BY <1>1, <1>2

(***************************************************************************)
(* list_add_tail of a node that was not on the list.                       *)
(***************************************************************************)
LEMMA ListAddTailProperties ==
  ASSUME NEW T, NEW s \in Seq(T), NoDup(s), NEW e \in T, e \notin ToSet(s)
  PROVE  /\ ListAddTail(s, e) \in Seq(T)
         /\ ListAddTail(s, e) # <<>>
         /\ NoDup(ListAddTail(s, e))
         /\ ToSet(ListAddTail(s, e)) = ToSet(s) \cup {e}
<1> DEFINE r == Append(s, e)
<1>1. /\ r \in Seq(T) /\ Len(r) = Len(s) + 1 /\ r # <<>>
      /\ \A i \in 1..Len(s) : r[i] = s[i]
      /\ r[Len(s)+1] = e
  BY AppendProperties
<1>2. /\ DOMAIN s = 1..Len(s) /\ DOMAIN r = 1..(Len(s)+1)
      /\ Len(s) \in Nat
  BY <1>1
<1> HIDE DEF r
<1>3. \A i \in 1..Len(s) : s[i] # e
  BY <1>2 DEF ToSet
<1>4. NoDup(r)
  BY <1>1, <1>2, <1>3 DEF NoDup
<1>5. ToSet(r) = ToSet(s) \cup {e}
  <2>1. ASSUME NEW x \in ToSet(r) PROVE x \in ToSet(s) \cup {e}
    <3>1. PICK i \in 1..(Len(s)+1) : x = r[i]
      BY <1>2 DEF ToSet
    <3> QED BY <3>1, <1>1, <1>2 DEF ToSet
  <2>2. ToSet(s) \subseteq ToSet(r)
    BY <1>1, <1>2 DEF ToSet
  <2>3. e \in ToSet(r)
    BY <1>1, <1>2 DEF ToSet
  <2> QED BY <2>1, <2>2, <2>3
<1> QED
  BY <1>1, <1>4, <1>5 DEF r, ListAddTail

\* r is s with e in front of its p-th place.
With(r, s, p, e) ==
  /\ Len(r) = Len(s) + 1
  /\ \A i \in 1..(Len(s)+1) : r[i] = IF i < p THEN s[i] ELSE IF i = p THEN e ELSE s[i-1]

(***************************************************************************)
(* Linking a node moves those behind it one place back.                    *)
(***************************************************************************)
LEMMA ListAddBeforePlaces ==
  ASSUME NEW T, NEW s \in Seq(T), NEW e \in T, NEW p \in 1..(Len(s) + 1)
  PROVE  ListAddBefore(s, p, e) \in Seq(T) /\ With(ListAddBefore(s, p, e), s, p, e)
<1> DEFINE a == SubSeq(s, 1, p-1)
           b == SubSeq(s, p, Len(s))
           ae == a \o <<e>>
           r == ae \o b
<1>0. /\ DOMAIN s = 1..Len(s)
      /\ \A i \in 1..Len(s) : s[i] \in T
      /\ Len(s) \in Nat
  OBVIOUS
<1>1. a \in Seq(T) /\ Len(a) = p-1 /\ \A i \in 1..(p-1) : a[i] = s[i]
  <2>1. \A i \in 1..(p-1) : s[i] \in T
    BY <1>0
  <2> QED BY <2>1, <1>0, SubSeqProperties
<1>2. b \in Seq(T) /\ Len(b) = Len(s)-p+1 /\ \A i \in 1..(Len(s)-p+1) : b[i] = s[p+i-1]
  <2>1. \A i \in p..Len(s) : s[i] \in T
    BY <1>0
  <2> QED BY <2>1, <1>0, SubSeqProperties
<1>3. ae \in Seq(T) /\ Len(ae) = p /\ ae[p] = e /\ \A i \in 1..(p-1) : ae[i] = s[i]
  <2> HIDE DEF a
  <2>1. <<e>> \in Seq(T) /\ Len(<<e>>) = 1 /\ <<e>>[1] = e
    OBVIOUS
  <2>2. /\ ae \in Seq(T) /\ Len(ae) = Len(a) + 1
        /\ \A i \in 1..(Len(a)+1) : ae[i] = IF i <= Len(a) THEN a[i] ELSE <<e>>[i - Len(a)]
    BY <2>1, <1>1, ConcatProperties
  <2> QED BY <2>1, <2>2, <1>1
<1>4. /\ r \in Seq(T) /\ Len(r) = Len(s) + 1
      /\ \A i \in 1..(Len(s)+1) :
           r[i] = IF i < p THEN s[i] ELSE IF i = p THEN e ELSE s[i-1]
  <2> HIDE DEF ae, a, b
  <2>1. /\ r \in Seq(T) /\ Len(r) = Len(ae) + Len(b)
        /\ \A i \in 1..(Len(ae)+Len(b)) : r[i] = IF i <= Len(ae) THEN ae[i] ELSE b[i-Len(ae)]
    BY <1>2, <1>3, ConcatProperties
  <2>2. Len(ae) + Len(b) = Len(s) + 1
    BY <1>0, <1>2, <1>3
  <2> HIDE DEF r
  <2>3. ASSUME NEW i \in 1..(Len(s)+1)
        PROVE  r[i] = IF i < p THEN s[i] ELSE IF i = p THEN e ELSE s[i-1]
    <3>1. r[i] = IF i <= p THEN ae[i] ELSE b[i-p]
      BY <2>1, <2>2, <1>3
    <3>2. CASE i < p
      BY <3>1, <3>2, <1>3
    <3>3. CASE i = p
      BY <3>1, <3>3, <1>3
    <3>4. CASE i > p
      <4>1. i-p \in 1..(Len(s)-p+1) /\ p+(i-p)-1 = i-1
        BY <3>4, <1>0
      <4>2. b[i-p] = s[i-1]
        BY <4>1, <1>2
      <4> QED BY <4>2, <3>1, <3>4
    <3> QED BY <3>2, <3>3, <3>4
  <2> QED BY <2>1, <2>2, <2>3
<1>5. ListAddBefore(s, p, e) = r
  BY DEF ListAddBefore, InsertAt
<1> HIDE DEF r
<1>6. With(r, s, p, e)
  BY <1>4 DEF With
<1> QED BY <1>4, <1>5, <1>6

(***************************************************************************)
(* Linking a new node in front of any place of a list, its end included.   *)
(***************************************************************************)
LEMMA ListAddBeforeProperties ==
  ASSUME NEW T, NEW s \in Seq(T), NoDup(s), NEW e \in T, e \notin ToSet(s),
         NEW p \in 1..(Len(s) + 1)
  PROVE  /\ ListAddBefore(s, p, e) \in Seq(T)
         /\ NoDup(ListAddBefore(s, p, e))
         /\ ToSet(ListAddBefore(s, p, e)) = ToSet(s) \cup {e}
<1> DEFINE r == ListAddBefore(s, p, e)
<1>0. /\ DOMAIN s = 1..Len(s)
      /\ \A i \in 1..Len(s) : s[i] \in T
      /\ Len(s) \in Nat
  OBVIOUS
<1>9. r \in Seq(T) /\ With(r, s, p, e)
  BY ListAddBeforePlaces
<1> HIDE DEF r
<1>1. /\ r \in Seq(T) /\ Len(r) = Len(s) + 1
      /\ \A i \in 1..(Len(s)+1) :
           r[i] = IF i < p THEN s[i] ELSE IF i = p THEN e ELSE s[i-1]
  BY <1>9 DEF With
<1>2. DOMAIN r = 1..(Len(s)+1)
  BY <1>1
<1>3. \A i \in 1..Len(s) : s[i] # e
  BY <1>0 DEF ToSet
<1>4. NoDup(r)
  <2> SUFFICES ASSUME NEW i \in 1..(Len(s)+1), NEW j \in 1..(Len(s)+1), r[i] = r[j], i < j
               PROVE  FALSE
    BY <1>0, <1>2 DEF NoDup
  <2>1. CASE j < p
    BY <2>1, <1>0, <1>1 DEF NoDup
  <2>2. CASE j = p
    BY <2>2, <1>0, <1>1, <1>3
  <2>3. CASE j > p /\ i = p
    <3>1. r[j] = s[j-1] /\ j-1 \in 1..Len(s) /\ r[i] = e
      BY <2>3, <1>0, <1>1
    <3> QED BY <3>1, <1>3
  <2>4. CASE j > p /\ i < p
    <3>1. r[j] = s[j-1] /\ j-1 \in 1..Len(s) /\ r[i] = s[i] /\ i \in 1..Len(s) /\ i # j-1
      BY <2>4, <1>0, <1>1
    <3> QED BY <3>1, <1>0 DEF NoDup
  <2>5. CASE j > p /\ i > p
    <3>1. /\ r[j] = s[j-1] /\ j-1 \in 1..Len(s) 
          /\ r[i] = s[i-1] /\ i-1 \in 1..Len(s) /\ i-1 # j-1
      BY <2>5, <1>0, <1>1
    <3> QED BY <3>1, <1>0 DEF NoDup
  <2> QED BY <2>1, <2>2, <2>3, <2>4, <2>5
<1>5. ToSet(r) = ToSet(s) \cup {e}
  <2>1. ASSUME NEW x \in ToSet(r) PROVE x \in ToSet(s) \cup {e}
    <3>1. PICK i \in 1..(Len(s)+1) : x = r[i]
      BY <1>2 DEF ToSet
    <3>2. CASE i < p
      BY <3>1, <3>2, <1>0, <1>1 DEF ToSet
    <3>3. CASE i = p
      BY <3>1, <3>3, <1>0, <1>1
    <3>4. CASE i > p
      <4>1. i-1 \in 1..Len(s) /\ x = s[i-1]
        BY <3>1, <3>4, <1>0, <1>1
      <4> QED BY <4>1, <1>0 DEF ToSet
    <3> QED BY <3>2, <3>3, <3>4
  <2>2. ASSUME NEW x \in ToSet(s) PROVE x \in ToSet(r)
    <3>1. PICK i \in 1..Len(s) : x = s[i]
      BY <1>0 DEF ToSet
    <3>2. CASE i < p
      BY <3>1, <3>2, <1>0, <1>1, <1>2 DEF ToSet
    <3>3. CASE i >= p
      <4>1. i+1 \in 1..(Len(s)+1) /\ r[i+1] = x
        BY <3>1, <3>3, <1>0, <1>1
      <4> QED BY <4>1, <1>2 DEF ToSet
    <3> QED BY <3>2, <3>3
  <2>3. e \in ToSet(r)
    BY <1>0, <1>1, <1>2 DEF ToSet
  <2> QED BY <2>1, <2>2, <2>3
<1> QED
  BY <1>1, <1>4, <1>5 DEF r

(***************************************************************************)
(* A non-empty set of naturals has a least element.                        *)
(***************************************************************************)
LEMMA MinProperties ==
  ASSUME NEW S \in SUBSET Nat, S # {}
  PROVE  Min(S) \in S /\ \A n \in S : Min(S) <= n
<1>1. PICK n \in S : \A m \in S : <<m, n>> \notin OpToRel(<, Nat)
  BY NatLessThanWellFounded, WFMin
<1>2. ASSUME NEW m \in S, m < n PROVE FALSE
  <2>1. <<m, n>> \in Nat \X Nat /\ <<m, n>>[1] < <<m, n>>[2]
    BY <1>2
  <2>2. <<m, n>> \in OpToRel(<, Nat)
    BY <2>1, Zenon DEF OpToRel
  <2> QED BY <2>2, <1>1
<1>3. \A m \in S : n <= m
  BY <1>2
<1>4. \A x \in S : (\A y \in S : x <= y) => x = n
  BY <1>3
<1> QED
  BY <1>3, <1>4 DEF Min

-----------------------------------------------------------------------------
(***************************************************************************)
(* timer_stop takes the timer off the list.                                *)
(***************************************************************************)
LEMMA TimerStopKeeps ==
  ASSUME NEW m \in TimerType, NoDup(m.list), NEW t \in Timer
  PROVE  /\ timer_stop(m, t) \in TimerType
         /\ NoDup(timer_stop(m, t).list)
         /\ ToSet(timer_stop(m, t).list) = ToSet(m.list) \ {t}
<1>1. m.list \in Seq(Timer) /\ m.lave \in [Timer -> Nat]
  BY DEF TimerType
<1>2. /\ ListDel(m.list, t) \in Seq(Timer) /\ NoDup(ListDel(m.list, t))
      /\ ToSet(ListDel(m.list, t)) = ToSet(m.list) \ {t}
  BY <1>1, ListDelProperties
<1> QED
  BY <1>1, <1>2 DEF timer_stop, TimerType

(***************************************************************************)
(* timer_start links the timer once, wherever its deadline puts it.        *)
(***************************************************************************)
LEMMA TimerStartKeeps ==
  ASSUME NEW m \in TimerType, NoDup(m.list), NEW t \in Timer, NEW n \in Nat
  PROVE  /\ timer_start(m, t, n) \in TimerType
         /\ NoDup(timer_start(m, t, n).list)
         /\ ToSet(timer_start(m, t, n).list) = ToSet(m.list) \cup {t}
<1> DEFINE l == ListDel(m.list, t)
           S == {i \in 1..Len(l) :
                   \/ m.lave[l[i]] > n
                   \/ m.lave[l[i]] = n /\ TimerPriority[l[i]] > TimerPriority[t]}
                \cup {Len(l) + 1}
           r == ListAddBefore(l, FirstLater(m, l, t, n), t)
           q == [m.lave EXCEPT ![t] = n]
<1>1. m.list \in Seq(Timer) /\ m.lave \in [Timer -> Nat]
  BY DEF TimerType
<1>2. /\ l \in Seq(Timer) /\ NoDup(l) /\ ToSet(l) = ToSet(m.list) \ {t}
  BY <1>1, ListDelProperties
<1>3. timer_start(m, t, n) = [list |-> r, lave |-> q]
  BY DEF timer_start
<1>4. q \in [Timer -> Nat]
  BY <1>1
<1> HIDE DEF l, q
<1>5. FirstLater(m, l, t, n) \in 1..(Len(l) + 1)
  <2>1. Len(l) \in Nat
    BY <1>2
  <2>2. S \subseteq 1..(Len(l) + 1) /\ S # {}
    BY <2>1
  <2>3. FirstLater(m, l, t, n) = Min(S)
    BY DEF FirstLater
  <2> HIDE DEF S
  <2>4. S \in SUBSET Nat
    BY <2>1, <2>2
  <2>5. Min(S) \in S
    BY <2>2, <2>4, MinProperties
  <2> QED BY <2>2, <2>3, <2>5
<1>6. r \in Seq(Timer) /\ NoDup(r) /\ ToSet(r) = ToSet(l) \cup {t}
  BY <1>2, <1>5, ListAddBeforeProperties
<1> HIDE DEF r
<1> QED
  BY <1>2, <1>3, <1>4, <1>6 DEF TimerType

(***************************************************************************)
(* A tick leaves the timer list as it is.                                  *)
(***************************************************************************)
LEMMA RunTickKeeps ==
  ASSUME NEW m \in TimerType
  PROVE  run_tick(m) \in TimerType /\ run_tick(m).list = m.list
<1> DEFINE q == [t \in Timer |-> IF m.lave[t] = 0 THEN 0 ELSE m.lave[t] - 1]
<1>1. m.list \in Seq(Timer) /\ m.lave \in [Timer -> Nat]
  BY DEF TimerType
<1>2. q \in [Timer -> Nat]
  BY <1>1
<1>3. run_tick(m) = [m EXCEPT !.lave = q]
  BY DEF run_tick
<1> HIDE DEF q
<1> QED
  BY <1>1, <1>2, <1>3 DEF TimerType

=============================================================================
