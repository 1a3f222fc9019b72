------------------------------ MODULE MmProofs ------------------------------
(***************************************************************************)
(* The linked headers of mm/mm.c implement the allocator of Heap, for      *)
(* every size of the pool, every request and every set of pids.            *)
(*                                                                         *)
(* The inductive invariant is about the list of headers alone: it is in    *)
(* the order of the addresses, has no gap, and the headers of neighbouring *)
(* free blocks stand one behind the other, so that the counter of          *)
(* __find_block counts blocks.                                             *)
(***************************************************************************)
EXTENDS Mm, SequenceTheorems, TLAPS

\* The list l of L headers, given the block_num of each header.
Wide(num, b) == IF num[b] = 0 THEN 1 ELSE num[b]

Ends(l, L, num) ==
  L \in Nat \ {0} /\ l[1] = 0 /\ l[L] + Wide(num, l[L]) = N

NoGap(l, L, num) == \A i \in 1..(L - 1) : l[i + 1] = l[i] + Wide(num, l[i])

InOrder(l, L, num) ==
  \A i, j \in 1..L : i < j => l[i] + Wide(num, l[i]) <= l[j]

Covers(l, L, num) ==
  \A b \in Block : \E i \in 1..L : l[i] <= b /\ b < l[i] + Wide(num, l[i])

RunsCount(l, L, num) ==
  \A i, j \in 1..L :
    i <= j /\ (\A k \in i..(j - 1) : num[l[k]] = 0) => l[j] = l[i] + (j - i)

Linked(l, L, num) ==
  /\ Ends(l, L, num) /\ NoGap(l, L, num) /\ InOrder(l, L, num)
  /\ Covers(l, L, num) /\ RunsCount(l, L, num)

\* The headers wk_free_by_pid has passed are not those of its task.
Swept ==
  sweep # 0 => \A i \in 1..Len(list) : i < cursor => pid[list[i]] # sweep

Inv ==
  /\ TypeOK /\ Linked(list, Len(list), block_num) /\ Swept
  /\ \A i \in 1..Len(list) : IsFree(i) => pid[list[i]] = 0

-----------------------------------------------------------------------------
(***************************************************************************)
(* Facts of arithmetic.                                                    *)
(***************************************************************************)
LEMMA StartsBefore ==
  ASSUME NEW a \in Nat, NEW w \in Nat \ {0}, NEW c \in Nat, a + w <= c
  PROVE  a < c
OBVIOUS

LEMMA OneWide ==
  ASSUME NEW a \in Nat, NEW c \in Nat, a <= c, c < a + 1
  PROVE  c = a
OBVIOUS

LEMMA InsideArea ==
  ASSUME NEW a \in Nat, NEW n \in Nat, NEW d \in 0..(n - 1)
  PROVE  a + d \in a..(a + n - 1)
OBVIOUS

LEMMA InsidePool ==
  ASSUME NEW a \in Nat, NEW n \in Nat, NEW d \in 0..(n - 1), NEW K \in Nat,
         a + n <= K
  PROVE  a + d \in 0..(K - 1)
OBVIOUS

LEMMA RunStart ==
  ASSUME NEW a \in Nat, NEW b \in Nat, NEW i \in Nat, NEW n \in Nat,
         b = a + (i - (i - n + 1))
  PROVE  b - (n - 1) = a /\ a + n = b + 1
OBVIOUS

LEMMA NextPlace ==
  ASSUME NEW K \in Nat, NEW i \in 1..K, i # K
  PROVE  i \in 1..(K - 1) /\ i + 1 \in 1..K
OBVIOUS

LEMMA Apart ==
  ASSUME NEW a \in Nat, NEW b \in Nat, NEW m \in Nat, NEW n \in Nat,
         a + m <= b \/ b + n <= a
  PROVE  (a..(a + m - 1)) \cap (b..(b + n - 1)) = {}
OBVIOUS

LEMMA NextInArea ==
  ASSUME NEW a \in Nat, NEW d \in Nat, NEW e \in Nat, d + 1 <= e
  PROVE  (a + d) + 1 <= a + e
OBVIOUS

LEMMA AreaBefore ==
  ASSUME NEW a \in Nat, NEW d \in Nat, NEW n \in Nat, NEW c \in Nat,
         d + 1 <= n, a + n <= c
  PROVE  (a + d) + 1 <= c
OBVIOUS

LEMMA PlaceInArea ==
  ASSUME NEW s \in Nat \ {0}, NEW n \in Nat, NEW d \in 0..(n - 1),
         NEW L \in Nat, NEW M \in Nat, s <= L, M = L + n - 1
  PROVE  /\ s + d \in 1..M /\ s <= s + d /\ s + d < s + n
         /\ (s + d) - s = d
OBVIOUS

LEMMA WhereTwoStand ==
  ASSUME NEW i \in Nat, NEW j \in Nat, NEW s \in Nat, NEW n \in Nat
  PROVE  \/ j < s
         \/ i < s /\ s <= j /\ j < s + n
         \/ i < s /\ j >= s + n
         \/ s <= i /\ j < s + n
         \/ s <= i /\ i < s + n /\ j >= s + n
         \/ i >= s + n
OBVIOUS

LEMMA StaysBefore ==
  ASSUME NEW a \in Nat, NEW w \in Nat, NEW c \in Nat, NEW d \in Nat, a + w <= c
  PROVE  a + w <= c + d
OBVIOUS

(***************************************************************************)
(* n headers of free blocks from header s on become one area: the list m   *)
(* of M headers.                                                           *)
(***************************************************************************)
Merged(l, L, num, s, n, m, M, num2) ==
  /\ s + n - 1 <= L /\ M = L - n + 1
  /\ \A k \in s..(s + n - 1) : num[l[k]] = 0
  /\ \A b \in Block : num2[b] = IF b = l[s] THEN n ELSE num[b]
  /\ \A j \in 1..M : m[j] = IF j <= s THEN l[j] ELSE l[j + n - 1]

LEMMA MergeKeepsLinked ==
  ASSUME NEW L \in Nat \ {0}, NEW l \in [1..L -> Block],
         NEW num \in [Block -> 0..N], Linked(l, L, num),
         NEW s \in 1..L, NEW n \in 1..N,
         NEW num2 \in [Block -> 0..N],
         NEW M \in Nat, NEW m \in [1..M -> Block],
         Merged(l, L, num, s, n, m, M, num2)
  PROVE  Linked(m, M, num2)
<1>1. /\ N \in Nat /\ n \in Nat \ {0} /\ s \in Nat \ {0}
      /\ M \in Nat \ {0} /\ s <= M /\ M = L - n + 1 /\ s + n - 1 <= L
  <2>1. N \in Nat
    BY MmAssumption
  <2>2. s + n - 1 <= L /\ M = L - n + 1
    BY DEF Merged
  <2>3. n \in Nat \ {0} /\ s \in Nat \ {0}
    BY <2>1
  <2> QED BY <2>1, <2>2, <2>3
<1>2. /\ \A j \in 1..L : l[j] \in Nat /\ l[j] \in Block
      /\ \A b \in Block : num[b] \in Nat
  <2>1. Block \subseteq Nat
    BY <1>1 DEF Block
  <2>2. \A j \in 1..L : l[j] \in Block
    OBVIOUS
  <2>3. \A b \in Block : num[b] \in 0..N
    OBVIOUS
  <2>4. 0..N \subseteq Nat
    BY <1>1
  <2>5. \A j \in 1..L : l[j] \in Nat
    BY <2>1, <2>2, Zenon
  <2>6. \A b \in Block : num[b] \in Nat
    BY <2>3, <2>4, Zenon
  <2> QED BY <2>2, <2>5, <2>6, Zenon
<1>3. \A j \in 1..L : Wide(num, l[j]) \in Nat \ {0}
  BY <1>2 DEF Wide
<1>4. \A i, j \in 1..L : i < j => l[i] < l[j]
  <2> SUFFICES ASSUME NEW i \in 1..L, NEW j \in 1..L, i < j PROVE l[i] < l[j]
    OBVIOUS
  <2>1. l[i] + Wide(num, l[i]) <= l[j]
    BY DEF Linked, InOrder
  <2>2. l[i] \in Nat /\ l[j] \in Nat /\ Wide(num, l[i]) \in Nat \ {0}
    BY <1>2, <1>3
  <2> QED BY <2>1, <2>2, StartsBefore
<1>5. /\ \A j \in 1..M : j <= s => m[j] = l[j]
      /\ \A j \in 1..M : j > s => m[j] = l[j + n - 1] /\ j + n - 1 \in 1..L /\ j + n - 1 > s
  <2>1. \A j \in 1..M : m[j] = IF j <= s THEN l[j] ELSE l[j + n - 1]
    BY DEF Merged
  <2>2. \A j \in 1..M : j > s => j + n - 1 \in 1..L /\ j + n - 1 > s /\ ~(j <= s)
    BY <1>1
  <2> QED BY <2>1, <2>2
<1>6. \A j \in 1..L : j # s => num2[l[j]] = num[l[j]]
  <2> SUFFICES ASSUME NEW j \in 1..L, j # s PROVE num2[l[j]] = num[l[j]]
    OBVIOUS
  <2>1. l[j] # l[s]
    <3>1. CASE j < s
      BY <3>1, <1>2, <1>4
    <3>2. CASE s < j
      BY <3>2, <1>2, <1>4
    <3> QED BY <3>1, <3>2, <1>1
  <2> QED BY <2>1, <1>2 DEF Merged
<1>7. num2[l[s]] = n /\ m[s] = l[s]
  BY <1>1, <1>2, <1>5 DEF Merged
<1>8. /\ Wide(num2, m[s]) = n
      /\ \A j \in 1..M : j < s => Wide(num2, m[j]) = Wide(num, l[j])
      /\ \A j \in 1..M : j > s => Wide(num2, m[j]) = Wide(num, l[j + n - 1])
  <2>1. ASSUME NEW j \in 1..M, j < s PROVE Wide(num2, m[j]) = Wide(num, l[j])
    <3>1. j \in 1..L /\ j # s /\ j <= s
      BY <2>1, <1>1
    <3> QED BY <3>1, <1>5, <1>6 DEF Wide
  <2>2. ASSUME NEW j \in 1..M, j > s PROVE Wide(num2, m[j]) = Wide(num, l[j + n - 1])
    <3>1. m[j] = l[j + n - 1] /\ j + n - 1 \in 1..L /\ j + n - 1 > s
      BY <2>2, <1>5
    <3>2. j + n - 1 # s
      BY <3>1, <1>1
    <3> QED BY <3>1, <3>2, <1>6 DEF Wide
  <2>3. Wide(num2, m[s]) = n
    BY <1>1, <1>7 DEF Wide
  <2> QED BY <2>1, <2>2, <2>3
<1>9. \A k \in s..(s + n - 1) : l[k] = l[s] + (k - s) /\ Wide(num, l[k]) = 1
  <2> SUFFICES ASSUME NEW k \in s..(s + n - 1)
               PROVE  l[k] = l[s] + (k - s) /\ Wide(num, l[k]) = 1
    OBVIOUS
  <2>1. k \in 1..L /\ s <= k /\ num[l[k]] = 0
    BY <1>1 DEF Merged
  <2>2. \A h \in s..(k - 1) : num[l[h]] = 0
    BY <1>1 DEF Merged
  <2> QED BY <2>1, <2>2 DEF Linked, RunsCount, Wide
<1>10. s + n - 1 \in s..(s + n - 1) /\ l[s + n - 1] = l[s] + (n - 1)
  BY <1>1, <1>9
<1>11. Ends(m, M, num2)
  <2>1. m[1] = 0
    BY <1>1, <1>5 DEF Linked, Ends
  <2>2. CASE M = s
    <3>1. L = s + n - 1
      BY <2>2, <1>1
    <3>2. l[L] + 1 = N
      BY <3>1, <1>1, <1>9 DEF Linked, Ends
    <3> QED BY <2>1, <2>2, <3>1, <3>2, <1>1, <1>2, <1>7, <1>8, <1>10 DEF Ends
  <2>3. CASE M # s
    <3>1. M > s /\ M + n - 1 = L /\ M \in 1..M
      BY <2>3, <1>1
    <3>2. m[M] = l[L] /\ Wide(num2, m[M]) = Wide(num, l[L])
      BY <3>1, <1>5, <1>8
    <3> QED BY <2>1, <3>2, <1>1 DEF Linked, Ends
  <2> QED BY <2>2, <2>3
<1>12. NoGap(m, M, num2)
  <2> SUFFICES ASSUME NEW i \in 1..(M - 1)
               PROVE  m[i + 1] = m[i] + Wide(num2, m[i])
    BY DEF NoGap
  <2>0. i \in 1..M /\ i + 1 \in 1..M
    BY <1>1
  <2>1. CASE i = s
    <3>1. m[i + 1] = l[s + n] /\ s + n - 1 \in 1..(L - 1)
      BY <2>0, <2>1, <1>1, <1>5
    <3>2. l[s + n] = l[s + n - 1] + 1
      BY <3>1, <1>1, <1>9, <1>10 DEF Linked, NoGap
    <3> QED BY <2>1, <3>1, <3>2, <1>1, <1>2, <1>7, <1>8, <1>10
  <2>2. CASE i < s
    <3>1. m[i] = l[i] /\ m[i + 1] = l[i + 1] /\ i \in 1..(L - 1)
          /\ Wide(num2, m[i]) = Wide(num, l[i])
      BY <2>0, <2>2, <1>1, <1>5, <1>8
    <3> QED BY <3>1 DEF Linked, NoGap
  <2>3. CASE i > s
    <3>1. /\ m[i] = l[i + n - 1] /\ m[i + 1] = l[(i + n - 1) + 1]
          /\ i + n - 1 \in 1..(L - 1)
          /\ Wide(num2, m[i]) = Wide(num, l[i + n - 1])
      <4>1. i + 1 > s /\ (i + 1) + n - 1 = (i + n - 1) + 1 /\ i + n - 1 \in 1..(L - 1)
        BY <2>0, <2>3, <1>1
      <4> QED BY <4>1, <2>0, <2>3, <1>5, <1>8
    <3> QED BY <3>1 DEF Linked, NoGap
  <2> QED BY <2>0, <2>1, <2>2, <2>3, <1>1
<1>13. InOrder(m, M, num2)
  <2> SUFFICES ASSUME NEW i \in 1..M, NEW j \in 1..M, i < j
               PROVE  m[i] + Wide(num2, m[i]) <= m[j]
    BY DEF InOrder
  <2>1. CASE i = s
    <3>1. m[j] = l[j + n - 1] /\ j + n - 1 \in 1..L /\ s + n - 1 < j + n - 1 /\ s + n - 1 \in 1..L
      BY <2>1, <1>1, <1>5
    <3>2. l[s + n - 1] + 1 <= l[j + n - 1]
      BY <3>1, <1>9, <1>10 DEF Linked, InOrder
    <3> QED BY <2>1, <3>1, <3>2, <1>1, <1>2, <1>7, <1>8, <1>10
  <2>2. CASE i < s /\ j <= s
    <3>1. m[i] = l[i] /\ m[j] = l[j] /\ i \in 1..L /\ j \in 1..L
          /\ Wide(num2, m[i]) = Wide(num, l[i])
      BY <2>2, <1>1, <1>5, <1>8
    <3> QED BY <3>1 DEF Linked, InOrder
  <2>3. CASE i < s /\ j > s
    <3>1. m[i] = l[i] /\ m[j] = l[j + n - 1] /\ i \in 1..L /\ j + n - 1 \in 1..L
          /\ i < j + n - 1 /\ Wide(num2, m[i]) = Wide(num, l[i])
      BY <2>3, <1>1, <1>5, <1>8
    <3> QED BY <3>1 DEF Linked, InOrder
  <2>4. CASE i > s
    <3>1. m[i] = l[i + n - 1] /\ m[j] = l[j + n - 1] /\ i + n - 1 \in 1..L
          /\ j + n - 1 \in 1..L
          /\ i + n - 1 < j + n - 1 /\ Wide(num2, m[i]) = Wide(num, l[i + n - 1])
      <4>1. j > s /\ i + n - 1 < j + n - 1
        BY <2>4, <1>1
      <4> QED BY <4>1, <2>4, <1>5, <1>8
    <3> QED BY <3>1 DEF Linked, InOrder
  <2> QED BY <2>1, <2>2, <2>3, <2>4, <1>1
<1>14. Covers(m, M, num2)
  <2> SUFFICES ASSUME NEW b \in Block
               PROVE  \E i \in 1..M : m[i] <= b /\ b < m[i] + Wide(num2, m[i])
    BY DEF Covers
  <2>1. PICK k \in 1..L : l[k] <= b /\ b < l[k] + Wide(num, l[k])
    BY DEF Linked, Covers
  <2>2. CASE k < s
    <3>1. k \in 1..M /\ k <= s
      BY <2>2, <1>1
    <3>2. m[k] = l[k] /\ Wide(num2, m[k]) = Wide(num, l[k])
      BY <2>2, <3>1, <1>5, <1>8
    <3> QED BY <2>1, <3>1, <3>2
  <2>3. CASE k \in s..(s + n - 1)
    <3>1. b = l[s] + (k - s)
      <4>1. l[k] = l[s] + (k - s) /\ Wide(num, l[k]) = 1
        BY <2>3, <1>9
      <4>2. b \in Nat /\ l[s] \in Nat /\ l[k] \in Nat /\ k - s \in Nat
        <5>1. b \in Nat
          BY <1>1 DEF Block
        <5>2. k - s \in Nat
          BY <2>3, <1>1
        <5>3. l[s] \in Nat /\ l[k] \in Nat
          BY <1>2
        <5> QED BY <5>1, <5>2, <5>3
      <4>3. l[k] <= b /\ b < l[k] + 1
        BY <2>1, <4>1
      <4>4. b = l[k]
        BY <4>2, <4>3, OneWide
      <4> QED BY <4>1, <4>4
    <3>2. m[s] <= b /\ b < m[s] + Wide(num2, m[s]) /\ s \in 1..M
      <4>1. l[s] \in Nat /\ k - s \in Nat /\ 0 <= k - s /\ k - s < n /\ s \in 1..M
        BY <2>3, <1>1, <1>2
      <4>2. m[s] <= b /\ b < m[s] + n
        BY <4>1, <3>1, <1>1, <1>7
      <4> QED BY <4>1, <4>2, <1>8
    <3> QED BY <3>2
  <2>4. CASE k > s + n - 1
    <3>1. k - n + 1 \in 1..M /\ k - n + 1 > s /\ (k - n + 1) + n - 1 = k
      BY <2>4, <1>1
    <3>2. m[k - n + 1] = l[k] /\ Wide(num2, m[k - n + 1]) = Wide(num, l[k])
      BY <3>1, <1>5, <1>8
    <3> QED BY <2>1, <3>1, <3>2
  <2> QED BY <2>2, <2>3, <2>4, <1>1
<1>15. RunsCount(m, M, num2)
  <2> SUFFICES ASSUME NEW i \in 1..M, NEW j \in 1..M, i <= j,
                      \A k \in i..(j - 1) : num2[m[k]] = 0
               PROVE  m[j] = m[i] + (j - i)
    BY DEF RunsCount
  <2>1. ~(s \in i..(j - 1))
    BY <1>1, <1>7
  <2>2. CASE j <= s
    <3>1. \A k \in i..(j - 1) : num[l[k]] = 0
      <4> SUFFICES ASSUME NEW k \in i..(j - 1) PROVE num[l[k]] = 0
        OBVIOUS
      <4>1. k \in 1..M /\ k < s /\ k \in 1..L
        BY <2>2, <1>1
      <4> QED BY <4>1, <1>5, <1>6
    <3>2. m[i] = l[i] /\ m[j] = l[j] /\ i \in 1..L /\ j \in 1..L
      BY <2>2, <1>1, <1>5
    <3> QED BY <3>1, <3>2 DEF Linked, RunsCount
  <2>3. CASE i > s
    <3>1. \A k \in (i + n - 1)..((j + n - 1) - 1) : num[l[k]] = 0
      <4> SUFFICES ASSUME NEW k \in (i + n - 1)..((j + n - 1) - 1) PROVE num[l[k]] = 0
        OBVIOUS
      <4>1. k - n + 1 \in i..(j - 1) /\ k - n + 1 \in 1..M /\ (k - n + 1) + n - 1 = k
            /\ k - n + 1 > s /\ k \in 1..L /\ k # s
        BY <2>3, <1>1
      <4>2. m[k - n + 1] = l[k]
        BY <4>1, <1>5
      <4> QED BY <4>1, <4>2, <1>6
    <3>2. m[i] = l[i + n - 1] /\ m[j] = l[j + n - 1]
          /\ i + n - 1 \in 1..L /\ j + n - 1 \in 1..L /\ i + n - 1 <= j + n - 1
      BY <2>3, <1>1, <1>5
    <3>3. l[j + n - 1] = l[i + n - 1] + ((j + n - 1) - (i + n - 1))
      BY <3>1, <3>2 DEF Linked, RunsCount
    <3> QED BY <3>2, <3>3, <1>1, <1>2
  <2> QED BY <2>1, <2>2, <2>3, <1>1
<1> QED BY <1>11, <1>12, <1>13, <1>14, <1>15 DEF Linked

(***************************************************************************)
(* The area of header s becomes n headers of free blocks.                  *)
(***************************************************************************)
Opened(l, L, num, s, n, m, M, num2) ==
  /\ n = num[l[s]] /\ M = L + n - 1
  /\ \A b \in Block : num2[b] = IF b \in l[s]..(l[s] + n - 1) THEN 0 ELSE num[b]
  /\ \A j \in 1..M : m[j] = IF j < s THEN l[j]
                            ELSE IF j < s + n THEN l[s] + (j - s)
                            ELSE l[j - n + 1]

LEMMA OpenKeepsLinked ==
  ASSUME NEW L \in Nat \ {0}, NEW l \in [1..L -> Block],
         NEW num \in [Block -> 0..N], Linked(l, L, num),
         NEW s \in 1..L, NEW n \in 1..N,
         NEW num2 \in [Block -> 0..N],
         NEW M \in Nat, NEW m \in [1..M -> Block],
         Opened(l, L, num, s, n, m, M, num2)
  PROVE  Linked(m, M, num2)
<1>1. /\ N \in Nat /\ n \in Nat \ {0} /\ s \in Nat \ {0}
      /\ M \in Nat \ {0} /\ M = L + n - 1 /\ s \in 1..M
  <2>1. N \in Nat
    BY MmAssumption
  <2>2. M = L + n - 1
    BY DEF Opened
  <2>3. n \in Nat \ {0} /\ s \in Nat \ {0}
    BY <2>1
  <2> QED BY <2>1, <2>2, <2>3
<1>2. /\ \A j \in 1..L : l[j] \in Nat /\ l[j] \in Block
      /\ \A b \in Block : num[b] \in Nat
  <2>1. Block \subseteq Nat
    BY <1>1 DEF Block
  <2>2. \A j \in 1..L : l[j] \in Block
    OBVIOUS
  <2>3. \A b \in Block : num[b] \in 0..N
    OBVIOUS
  <2>4. 0..N \subseteq Nat
    BY <1>1
  <2>5. \A j \in 1..L : l[j] \in Nat
    BY <2>1, <2>2, Zenon
  <2>6. \A b \in Block : num[b] \in Nat
    BY <2>3, <2>4, Zenon
  <2> QED BY <2>2, <2>5, <2>6, Zenon
<1>3. \A j \in 1..L : Wide(num, l[j]) \in Nat \ {0}
  BY <1>2 DEF Wide
<1>4. Wide(num, l[s]) = n
  BY <1>1 DEF Wide, Opened
<1>5. /\ \A j \in 1..L : j < s => l[j] < l[s]
      /\ \A j \in 1..L : j > s => l[s] + n <= l[j]
  <2>1. ASSUME NEW j \in 1..L, j < s PROVE l[j] < l[s]
    <3>1. l[j] + Wide(num, l[j]) <= l[s]
      BY <2>1 DEF Linked, InOrder
    <3>2. l[j] \in Nat /\ l[s] \in Nat /\ Wide(num, l[j]) \in Nat \ {0}
      BY <1>2, <1>3
    <3> QED BY <3>1, <3>2, StartsBefore
  <2>2. ASSUME NEW j \in 1..L, j > s PROVE l[s] + n <= l[j]
    <3>1. s < j
      BY <2>2, <1>1
    <3> QED BY <3>1, <1>4 DEF Linked, InOrder
  <2> QED BY <2>1, <2>2
<1>6. \A j \in 1..L : j # s => num2[l[j]] = num[l[j]]
  <2> SUFFICES ASSUME NEW j \in 1..L, j # s PROVE num2[l[j]] = num[l[j]]
    OBVIOUS
  <2>1. l[j] \in Nat /\ l[s] \in Nat /\ l[j] \in Block
    BY <1>2
  <2>2. l[j] \notin l[s]..(l[s] + n - 1)
    <3>1. CASE j < s
      BY <3>1, <2>1, <1>1, <1>5
    <3>2. CASE j > s
      BY <3>2, <2>1, <1>1, <1>5
    <3> QED BY <3>1, <3>2, <1>1
  <2> QED BY <2>1, <2>2 DEF Opened
<1>7. \A j \in 1..M : j < s => m[j] = l[j] /\ j \in 1..L /\ num2[m[j]] = num[l[j]]
  <2> SUFFICES ASSUME NEW j \in 1..M, j < s
               PROVE  m[j] = l[j] /\ j \in 1..L /\ num2[m[j]] = num[l[j]]
    OBVIOUS
  <2>1. j \in 1..L /\ j # s
    BY <1>1
  <2> QED BY <2>1, <1>6 DEF Opened
<1>8. \A j \in 1..M : s <= j /\ j < s + n => m[j] = l[s] + (j - s) /\ num2[m[j]] = 0
  <2> SUFFICES ASSUME NEW j \in 1..M, s <= j, j < s + n
               PROVE  m[j] = l[s] + (j - s) /\ num2[m[j]] = 0
    OBVIOUS
  <2>1. ~(j < s) /\ j - s \in 0..(n - 1) /\ l[s] \in Nat
    BY <1>1, <1>2
  <2>2. m[j] = l[s] + (j - s)
    BY <2>1 DEF Opened
  <2>3. m[j] \in l[s]..(l[s] + n - 1) /\ m[j] \in Block
    <3>1. l[s] + (j - s) \in l[s]..(l[s] + n - 1)
      BY <2>1, <1>1, InsideArea
    <3> QED BY <3>1, <2>2
  <2> QED BY <2>2, <2>3 DEF Opened
<1>9. \A j \in 1..M : j >= s + n =>
         /\ m[j] = l[j - n + 1] /\ j - n + 1 \in 1..L /\ j - n + 1 > s
         /\ num2[m[j]] = num[l[j - n + 1]]
  <2> SUFFICES ASSUME NEW j \in 1..M, j >= s + n
               PROVE  /\ m[j] = l[j - n + 1] /\ j - n + 1 \in 1..L /\ j - n + 1 > s
                      /\ num2[m[j]] = num[l[j - n + 1]]
    OBVIOUS
  <2>1. ~(j < s) /\ ~(j < s + n) /\ j - n + 1 \in 1..L /\ j - n + 1 > s /\ j - n + 1 # s
    BY <1>1
  <2>2. m[j] = l[j - n + 1]
    BY <2>1 DEF Opened
  <2> QED BY <2>1, <2>2, <1>6
<1>10. /\ \A j \in 1..M : j < s => Wide(num2, m[j]) = Wide(num, l[j])
       /\ \A j \in 1..M : s <= j /\ j < s + n => Wide(num2, m[j]) = 1
       /\ \A j \in 1..M : j >= s + n => Wide(num2, m[j]) = Wide(num, l[j - n + 1])
  BY <1>7, <1>8, <1>9 DEF Wide
<1>11. \A j \in 1..M : s <= j /\ j < s + n => m[j] \in Nat
  <2>1. Block \subseteq Nat
    BY <1>1 DEF Block
  <2> QED BY <2>1
<1>12. l[s] + n <= N /\ (s < L => l[s + 1] = l[s] + n)
  <2>1. CASE s = L
    BY <2>1, <1>4, <1>1, <1>2 DEF Linked, Ends
  <2>2. CASE s < L
    <3>1. s \in 1..(L - 1) /\ s + 1 \in 1..L
      BY <2>2, <1>1
    <3>2. l[s + 1] = l[s] + n
      BY <3>1, <1>4 DEF Linked, NoGap
    <3>3. l[s + 1] \in 0..(N - 1)
      BY <3>1, <1>2 DEF Block
    <3> QED BY <3>2, <3>3, <1>1
  <2> QED BY <2>1, <2>2, <1>1
<1>13. Ends(m, M, num2)
  <2>1. m[1] = 0
    <3>1. CASE s = 1
      BY <3>1, <1>1, <1>8 DEF Linked, Ends
    <3>2. CASE s > 1
      BY <3>2, <1>1, <1>7 DEF Linked, Ends
    <3> QED BY <3>1, <3>2, <1>1
  <2>2. m[M] + Wide(num2, m[M]) = N
    <3>1. CASE s = L
      <4>1. M \in 1..M /\ s <= M /\ M < s + n /\ M - s = n - 1
        BY <3>1, <1>1
      <4>2. m[M] = l[s] + (n - 1) /\ Wide(num2, m[M]) = 1
        BY <4>1, <1>8, <1>10
      <4>3. l[s] + n = N /\ l[s] \in Nat
        BY <3>1, <1>2, <1>4 DEF Linked, Ends
      <4> QED BY <4>2, <4>3, <1>1
    <3>2. CASE s < L
      <4>1. M \in 1..M /\ M >= s + n /\ M - n + 1 = L
        BY <3>2, <1>1
      <4>2. m[M] = l[L] /\ Wide(num2, m[M]) = Wide(num, l[L])
        BY <4>1, <1>9, <1>10
      <4> QED BY <4>2 DEF Linked, Ends
    <3> QED BY <3>1, <3>2, <1>1
  <2> QED BY <2>1, <2>2, <1>1 DEF Ends
<1>14. NoGap(m, M, num2)
  <2> SUFFICES ASSUME NEW i \in 1..(M - 1)
               PROVE  m[i + 1] = m[i] + Wide(num2, m[i])
    BY DEF NoGap
  <2>0. i \in 1..M /\ i + 1 \in 1..M
    BY <1>1
  <2>1. CASE i + 1 < s
    <3>1. i < s /\ i \in 1..(L - 1)
      BY <2>1, <1>1
    <3> QED BY <2>0, <2>1, <3>1, <1>7, <1>10 DEF Linked, NoGap
  <2>2. CASE i + 1 = s
    <3>1. i < s /\ i \in 1..(L - 1) /\ s <= s /\ s < s + n /\ s - s = 0
      BY <2>2, <1>1
    <3>2. m[s] = l[s]
      BY <3>1, <1>1, <1>2, <1>8
    <3>3. m[i] = l[i] /\ Wide(num2, m[i]) = Wide(num, l[i])
      BY <2>0, <3>1, <1>7, <1>10
    <3> QED BY <2>2, <3>1, <3>2, <3>3 DEF Linked, NoGap
  <2>3. CASE s <= i /\ i + 1 < s + n
    <3>1. i < s + n /\ s <= i + 1 /\ (i + 1) - s = (i - s) + 1 /\ i - s \in Nat
      BY <2>3, <1>1
    <3>2. m[i] = l[s] + (i - s) /\ m[i + 1] = l[s] + ((i - s) + 1) /\ Wide(num2, m[i]) = 1
      BY <2>0, <2>3, <3>1, <1>8, <1>10
    <3> QED BY <3>1, <3>2, <1>2
  <2>4. CASE i + 1 = s + n
    <3>1. /\ s <= i /\ i < s + n /\ i - s = n - 1 /\ i + 1 >= s + n
          /\ (i + 1) - n + 1 = s + 1 /\ s < L
      BY <2>4, <1>1
    <3>2. m[i] = l[s] + (n - 1) /\ Wide(num2, m[i]) = 1
      BY <2>0, <3>1, <1>8, <1>10
    <3>3. m[i + 1] = l[s + 1]
      <4>1. m[i + 1] = l[(i + 1) - n + 1]
        BY <2>0, <3>1, <1>9
      <4> QED BY <4>1, <3>1
    <3> QED BY <3>1, <3>2, <3>3, <1>1, <1>2, <1>12
  <2>5. CASE i >= s + n
    <3>1. i + 1 >= s + n /\ (i + 1) - n + 1 = (i - n + 1) + 1 /\ i - n + 1 \in 1..(L - 1)
      BY <2>5, <1>1
    <3>2. m[i] = l[i - n + 1] /\ m[i + 1] = l[(i - n + 1) + 1]
          /\ Wide(num2, m[i]) = Wide(num, l[i - n + 1])
      <4>1. m[i + 1] = l[(i + 1) - n + 1]
        BY <2>0, <3>1, <1>9
      <4>2. m[i] = l[i - n + 1] /\ Wide(num2, m[i]) = Wide(num, l[i - n + 1])
        BY <2>0, <2>5, <1>9, <1>10
      <4> QED BY <4>1, <4>2, <3>1
    <3> QED BY <3>1, <3>2 DEF Linked, NoGap
  <2> QED BY <2>0, <2>1, <2>2, <2>3, <2>4, <2>5, <1>1
<1>15. InOrder(m, M, num2)
  <2> SUFFICES ASSUME NEW i \in 1..M, NEW j \in 1..M, i < j
               PROVE  m[i] + Wide(num2, m[i]) <= m[j]
    BY DEF InOrder
  <2>1. CASE j < s
    <3>1. i < s
      BY <2>1, <1>1
    <3> QED BY <2>1, <3>1, <1>7, <1>10 DEF Linked, InOrder
  <2>2. CASE i < s /\ s <= j /\ j < s + n
    <3>1. m[j] = l[s] + (j - s) /\ m[i] = l[i] /\ i \in 1..L
          /\ Wide(num2, m[i]) = Wide(num, l[i])
      BY <2>2, <1>7, <1>8, <1>10
    <3>2. l[i] + Wide(num, l[i]) <= l[s]
      BY <2>2, <3>1 DEF Linked, InOrder
    <3>3. j - s \in Nat /\ l[i] \in Nat /\ Wide(num, l[i]) \in Nat /\ l[s] \in Nat
      BY <2>2, <3>1, <1>1, <1>2, <1>3
    <3> QED BY <3>1, <3>2, <3>3, StaysBefore
  <2>3. CASE i < s /\ j >= s + n
    <3>1. m[j] = l[j - n + 1] /\ j - n + 1 \in 1..L /\ j - n + 1 > s /\ m[i] = l[i]
          /\ i \in 1..L /\ Wide(num2, m[i]) = Wide(num, l[i])
      BY <2>3, <1>7, <1>9, <1>10
    <3>2. i < j - n + 1
      BY <2>3, <3>1, <1>1
    <3> QED BY <3>1, <3>2 DEF Linked, InOrder
  <2>4. CASE s <= i /\ j < s + n
    <3>1. s <= j /\ i < s + n /\ (i - s) + 1 <= j - s /\ i - s \in Nat /\ j - s \in Nat
      BY <2>4, <1>1
    <3>2. m[i] = l[s] + (i - s) /\ m[j] = l[s] + (j - s) /\ Wide(num2, m[i]) = 1
      BY <2>4, <3>1, <1>8, <1>10
    <3>3. (l[s] + (i - s)) + 1 <= l[s] + (j - s)
      BY <3>1, <1>2, NextInArea
    <3> QED BY <3>2, <3>3
  <2>5. CASE s <= i /\ i < s + n /\ j >= s + n
    <3>1. m[j] = l[j - n + 1] /\ j - n + 1 \in 1..L /\ j - n + 1 > s
          /\ m[i] = l[s] + (i - s) /\ Wide(num2, m[i]) = 1
      BY <2>5, <1>8, <1>9, <1>10
    <3>2. l[s] + n <= l[j - n + 1]
      BY <3>1, <1>5
    <3>3. (i - s) + 1 <= n /\ i - s \in Nat /\ l[s] \in Nat /\ l[j - n + 1] \in Nat
      BY <2>5, <3>1, <1>1, <1>2
    <3>4. (l[s] + (i - s)) + 1 <= l[j - n + 1]
      BY <3>2, <3>3, <1>1, AreaBefore
    <3> QED BY <3>1, <3>4
  <2>6. CASE i >= s + n
    <3>1. j >= s + n /\ i - n + 1 < j - n + 1
      BY <2>6, <1>1
    <3>2. m[j] = l[j - n + 1] /\ j - n + 1 \in 1..L
          /\ m[i] = l[i - n + 1] /\ i - n + 1 \in 1..L
          /\ Wide(num2, m[i]) = Wide(num, l[i - n + 1])
      BY <2>6, <3>1, <1>9, <1>10
    <3> QED BY <3>1, <3>2 DEF Linked, InOrder
  <2>7. \/ j < s
        \/ i < s /\ s <= j /\ j < s + n
        \/ i < s /\ j >= s + n
        \/ s <= i /\ j < s + n
        \/ s <= i /\ i < s + n /\ j >= s + n
        \/ i >= s + n
    <3>1. i \in Nat /\ j \in Nat /\ s \in Nat /\ n \in Nat
      BY <1>1
    <3> QED BY <3>1, WhereTwoStand
  <2> QED BY <2>1, <2>2, <2>3, <2>4, <2>5, <2>6, <2>7, Zenon
<1>16. Covers(m, M, num2)
  <2> SUFFICES ASSUME NEW b \in Block
               PROVE  \E i \in 1..M : m[i] <= b /\ b < m[i] + Wide(num2, m[i])
    BY DEF Covers
  <2>1. PICK k \in 1..L : l[k] <= b /\ b < l[k] + Wide(num, l[k])
    BY DEF Linked, Covers
  <2>2. CASE k < s
    <3>1. k \in 1..M
      BY <2>2, <1>1
    <3> QED BY <2>1, <2>2, <3>1, <1>7, <1>10
  <2>3. CASE k = s
    <3>1. b \in Nat /\ l[s] \in Nat
      BY <1>1, <1>2 DEF Block
    <3>2. l[s] <= b /\ b < l[s] + n
      BY <2>1, <2>3, <1>4
    <3>3. b - l[s] \in 0..(n - 1) /\ b = l[s] + (b - l[s])
      BY <3>1, <3>2, <1>1
    <3>4. PICK d \in 0..(n - 1) : b = l[s] + d
      BY <3>3
    <3>5. s + d \in 1..M /\ s <= s + d /\ s + d < s + n /\ (s + d) - s = d
      BY <1>1, PlaceInArea
    <3>6. m[s + d] = b /\ Wide(num2, m[s + d]) = 1
      BY <3>4, <3>5, <1>8, <1>10
    <3>7. m[s + d] <= b /\ b < m[s + d] + Wide(num2, m[s + d])
      BY <3>1, <3>6
    <3> QED BY <3>5, <3>7
  <2>4. CASE k > s
    <3>1. k + n - 1 \in 1..M /\ k + n - 1 >= s + n /\ (k + n - 1) - n + 1 = k
      BY <2>4, <1>1
    <3>2. m[k + n - 1] = l[k] /\ Wide(num2, m[k + n - 1]) = Wide(num, l[k])
      BY <3>1, <1>9, <1>10
    <3> QED BY <2>1, <3>1, <3>2
  <2> QED BY <2>2, <2>3, <2>4, <1>1
<1>17. RunsCount(m, M, num2)
  <2> SUFFICES ASSUME NEW i \in 1..M, NEW j \in 1..M, i <= j,
                      \A k \in i..(j - 1) : num2[m[k]] = 0
               PROVE  m[j] = m[i] + (j - i)
    BY DEF RunsCount
  <2>1. \A k \in 1..L : i <= k /\ k < s /\ k < j => num[l[k]] = 0
    <3> SUFFICES ASSUME NEW k \in 1..L, i <= k, k < s, k < j PROVE num[l[k]] = 0
      OBVIOUS
    <3>1. k \in 1..M /\ k \in i..(j - 1)
      BY <1>1
    <3> QED BY <3>1, <1>7
  <2>2. \A k \in 1..L : s < k /\ i <= k + n - 1 /\ k + n - 1 < j => num[l[k]] = 0
    <3> SUFFICES ASSUME NEW k \in 1..L, s < k, i <= k + n - 1, k + n - 1 < j
                 PROVE  num[l[k]] = 0
      OBVIOUS
    <3>1. /\ k + n - 1 \in 1..M /\ k + n - 1 \in i..(j - 1) /\ k + n - 1 >= s + n
          /\ (k + n - 1) - n + 1 = k
      BY <1>1
    <3> QED BY <3>1, <1>9
  <2>3. ASSUME i < s, j >= s PROVE l[s] = m[i] + (s - i) /\ m[i] \in Nat
    <3>1. m[i] = l[i] /\ i \in 1..L /\ m[i] \in Nat
      BY <2>3, <1>2, <1>7
    <3>2. \A k \in i..(s - 1) : num[l[k]] = 0
      <4> SUFFICES ASSUME NEW k \in i..(s - 1) PROVE num[l[k]] = 0
        OBVIOUS
      <4>1. k \in 1..L /\ i <= k /\ k < s /\ k < j
        BY <2>3, <1>1
      <4> QED BY <4>1, <2>1
    <3>3. i <= s
      BY <2>3, <1>1
    <3> QED BY <3>1, <3>2, <3>3 DEF Linked, RunsCount
  <2>4. ASSUME i < s + n, j >= s + n PROVE m[j] = l[s] + (j - s)
    <3>1. m[j] = l[j - n + 1] /\ j - n + 1 \in 1..L /\ j - n + 1 > s
      BY <2>4, <1>9
    <3>2. s < L /\ s + 1 \in 1..L /\ s + 1 <= j - n + 1
      BY <3>1, <1>1
    <3>3. \A k \in (s + 1)..((j - n + 1) - 1) : num[l[k]] = 0
      <4> SUFFICES ASSUME NEW k \in (s + 1)..((j - n + 1) - 1) PROVE num[l[k]] = 0
        OBVIOUS
      <4>1. k \in 1..L /\ s < k /\ i <= k + n - 1 /\ k + n - 1 < j
        BY <2>4, <3>1, <1>1
      <4> QED BY <4>1, <2>2
    <3>4. l[j - n + 1] = l[s + 1] + ((j - n + 1) - (s + 1))
      BY <3>1, <3>2, <3>3 DEF Linked, RunsCount
    <3>5. l[s + 1] = l[s] + n
      BY <3>2, <1>12
    <3>6. l[s] \in Nat /\ n + ((j - n + 1) - (s + 1)) = j - s
      BY <1>1, <1>2
    <3> QED BY <3>1, <3>4, <3>5, <3>6, <1>1
  <2>5. CASE j < s
    <3>1. m[i] = l[i] /\ m[j] = l[j] /\ i \in 1..L /\ j \in 1..L
      <4>1. i < s
        BY <2>5, <1>1
      <4> QED BY <2>5, <4>1, <1>7
    <3>2. \A k \in i..(j - 1) : num[l[k]] = 0
      <4> SUFFICES ASSUME NEW k \in i..(j - 1) PROVE num[l[k]] = 0
        OBVIOUS
      <4>1. k \in 1..L /\ i <= k /\ k < s /\ k < j
        BY <2>5, <1>1
      <4> QED BY <4>1, <2>1
    <3> QED BY <3>1, <3>2 DEF Linked, RunsCount
  <2>6. CASE i < s /\ s <= j /\ j < s + n
    <3>1. m[j] = l[s] + (j - s)
      BY <2>6, <1>8
    <3>2. l[s] = m[i] + (s - i) /\ m[i] \in Nat
      BY <2>6, <2>3, <1>1
    <3> QED BY <3>1, <3>2, <1>1
  <2>7. CASE i < s /\ j >= s + n
    <3>1. m[j] = l[s] + (j - s)
      BY <2>7, <2>4, <1>1
    <3>2. l[s] = m[i] + (s - i) /\ m[i] \in Nat
      BY <2>7, <2>3, <1>1
    <3> QED BY <3>1, <3>2, <1>1
  <2>8. CASE s <= i /\ i < s + n
    <3>1. m[i] = l[s] + (i - s) /\ l[s] \in Nat
      BY <2>8, <1>2, <1>8
    <3>2. m[j] = l[s] + (j - s)
      <4>1. CASE j < s + n
        <5>1. s <= j
          BY <2>8, <1>1
        <5> QED BY <4>1, <5>1, <1>8
      <4>2. CASE j >= s + n
        BY <4>2, <2>8, <2>4
      <4> QED BY <4>1, <4>2, <1>1
    <3> QED BY <3>1, <3>2, <1>1
  <2>9. CASE i >= s + n
    <3>1. j >= s + n /\ i - n + 1 <= j - n + 1
      BY <2>9, <1>1
    <3>2. /\ m[i] = l[i - n + 1] /\ i - n + 1 \in 1..L /\ i - n + 1 > s
          /\ m[j] = l[j - n + 1] /\ j - n + 1 \in 1..L
      BY <2>9, <3>1, <1>9
    <3>3. \A k \in (i - n + 1)..((j - n + 1) - 1) : num[l[k]] = 0
      <4> SUFFICES ASSUME NEW k \in (i - n + 1)..((j - n + 1) - 1) PROVE num[l[k]] = 0
        OBVIOUS
      <4>1. k \in 1..L /\ s < k /\ i <= k + n - 1 /\ k + n - 1 < j
        BY <3>2, <1>1
      <4> QED BY <4>1, <2>2
    <3>4. l[j - n + 1] = l[i - n + 1] + ((j - n + 1) - (i - n + 1))
      BY <3>1, <3>2, <3>3 DEF Linked, RunsCount
    <3>5. (j - n + 1) - (i - n + 1) = j - i
      BY <1>1
    <3> QED BY <3>2, <3>4, <3>5
  <2> QED BY <2>5, <2>6, <2>7, <2>8, <2>9, <1>1
<1> QED BY <1>13, <1>14, <1>15, <1>16, <1>17 DEF Linked

-----------------------------------------------------------------------------
(***************************************************************************)
(* The list as a function.                                                 *)
(***************************************************************************)
LEMMA LenOfFunction ==
  ASSUME NEW S, NEW f \in Seq(S), NEW K \in Nat, DOMAIN f = 1..K
  PROVE  Len(f) = K
<1>1. Len(f) \in Nat /\ DOMAIN f = 1..Len(f)
  BY LenProperties
<1> DEFINE k == Len(f)
<1>2. 1..k = 1..K /\ k \in Nat
  BY <1>1
<1> HIDE DEF k
<1>3. k = K
  <2>1. CASE k < K
    <3>1. K \in 1..K /\ K \notin 1..k
      BY <2>1, <1>2
    <3> QED BY <3>1, <1>2
  <2>2. CASE k > K
    <3>1. k \in 1..k /\ k \notin 1..K
      BY <2>2, <1>2
    <3> QED BY <3>1, <1>2
  <2> QED BY <2>1, <2>2, <1>2
<1> QED BY <1>3 DEF k

LEMMA ListFacts ==
  ASSUME Inv
  PROVE  /\ N \in Nat \ {0}
         /\ Len(list) \in Nat \ {0}
         /\ list \in [1..Len(list) -> Block] /\ DOMAIN list = 1..Len(list)
         /\ \A i \in 1..Len(list) : list[i] \in Nat /\ list[i] \in Block
         /\ \A i \in 1..Len(list) : Wide(block_num, list[i]) \in Nat \ {0}
         /\ \A i, j \in 1..Len(list) : i < j => list[i] < list[j]
<1>1. list \in Seq(Block) /\ block_num \in [Block -> 0..N]
  BY DEF Inv, TypeOK
<1>2. list \in [1..Len(list) -> Block] /\ DOMAIN list = 1..Len(list)
  BY <1>1, LenProperties
<1>3. Len(list) \in Nat \ {0} /\ N \in Nat \ {0}
  BY MmAssumption DEF Inv, Linked, Ends
<1>4. \A i \in 1..Len(list) : list[i] \in Block
  BY <1>2
<1>5. Block \subseteq Nat
  BY <1>3 DEF Block
<1>6. \A i \in 1..Len(list) : list[i] \in Nat
  BY <1>4, <1>5, Zenon
<1>7. \A i \in 1..Len(list) : Wide(block_num, list[i]) \in Nat \ {0}
  <2> SUFFICES ASSUME NEW i \in 1..Len(list)
               PROVE  Wide(block_num, list[i]) \in Nat \ {0}
    OBVIOUS
  <2>1. block_num[list[i]] \in 0..N
    BY <1>1, <1>4
  <2> QED BY <2>1, <1>3 DEF Wide
<1>8. \A i, j \in 1..Len(list) : i < j => list[i] < list[j]
  <2> SUFFICES ASSUME NEW i \in 1..Len(list), NEW j \in 1..Len(list), i < j
               PROVE  list[i] < list[j]
    OBVIOUS
  <2>1. list[i] + Wide(block_num, list[i]) <= list[j]
    BY DEF Inv, Linked, InOrder
  <2> QED BY <2>1, <1>6, <1>7, StartsBefore
<1> QED BY <1>2, <1>3, <1>4, <1>6, <1>7, <1>8

LEMMA OnePlace ==
  ASSUME Inv, NEW i \in 1..Len(list), NEW j \in 1..Len(list), list[i] = list[j]
  PROVE  i = j
<1>1. ~(i < j) /\ ~(j < i)
  <2>1. ASSUME i < j PROVE FALSE
    BY <2>1, ListFacts
  <2>2. ASSUME j < i PROVE FALSE
    BY <2>2, ListFacts
  <2> QED BY <2>1, <2>2
<1>2. i \in Nat /\ j \in Nat
  BY ListFacts
<1> QED BY <1>1, <1>2

LEMMA PlaceOf ==
  ASSUME Inv, NEW i \in 1..Len(list)
  PROVE  Place(list[i]) = i
<1>1. i \in DOMAIN list /\ list[i] = list[i]
  BY ListFacts
<1>2. Place(list[i]) \in DOMAIN list /\ list[Place(list[i])] = list[i]
  BY <1>1 DEF Place
<1> QED BY <1>2, ListFacts, OnePlace

(***************************************************************************)
(* __mm_alloc merges the headers of the run.                               *)
(***************************************************************************)
LEMMA TakeMerges ==
  ASSUME Inv, NEW n \in 1..N, NEW i \in DOMAIN list, FreeRun(i, n), NEW p \in Pid,
         Take(list[i] - (n - 1), n, p)
  PROVE  LET s == i - n + 1
         IN  /\ s \in 1..Len(list) /\ list[i] - (n - 1) = list[s]
             /\ i = s + n - 1
             /\ Merged(list, Len(list), block_num, s, n, list', Len(list'), block_num')
             /\ list' \in Seq(Block) /\ block_num' \in [Block -> 0..N]
             /\ pid' \in [Block -> Pid]
             /\ \A c \in Block : pid'[c] = IF c = list[s] THEN p ELSE pid[c]
             /\ tail' \in {"head", "beyond"}
<1> DEFINE L == Len(list)
           s == i - n + 1
<1>1. /\ N \in Nat \ {0} /\ L \in Nat \ {0} /\ i \in 1..L /\ n \in Nat \ {0} /\ n <= i
  BY ListFacts DEF FreeRun
<1>2. s \in 1..L /\ s <= i /\ i = s + n - 1
  BY <1>1
<1>3. \A k \in s..i : block_num[list[k]] = 0
  BY DEF FreeRun, IsFree
<1>4. list[i] = list[s] + (i - s)
  <2>1. \A k \in s..(i - 1) : block_num[list[k]] = 0
    BY <1>1, <1>2, <1>3
  <2> HIDE DEF s
  <2> QED BY <2>1, <1>1, <1>2 DEF Inv, Linked, RunsCount
<1>5. list[s] \in Nat /\ list[i] \in Nat /\ list[s] \in Block
  BY <1>1, <1>2, ListFacts
<1>6. list[i] - (n - 1) = list[s] /\ list[s] + n = list[i] + 1
  <2>1. i \in Nat /\ n \in Nat /\ list[i] = list[s] + (i - (i - n + 1))
    BY <1>1, <1>4
  <2> HIDE DEF s
  <2> QED BY <2>1, <1>5, RunStart
<1>7. Wide(block_num, list[i]) = 1
  <2>1. i \in s..i
    BY <1>1, <1>2
  <2> QED BY <2>1, <1>3 DEF Wide
<1>8. From(list[s], n) = SubSeq(list, i + 1, L)
  <2>1. CASE i = L
    <3>1. list[s] + n = N
      BY <2>1, <1>6, <1>7 DEF Inv, Linked, Ends
    <3>2. SubSeq(list, i + 1, L) = <<>>
      <4>1. i + 1 \in Int /\ L \in Int /\ L < i + 1
        BY <1>1, <2>1
      <4> QED BY <4>1, SubSeqEmpty
    <3> QED BY <3>1, <3>2 DEF From
  <2>2. CASE i # L
    <3>1. i \in 1..(L - 1) /\ i + 1 \in 1..L
      BY <2>2, <1>1
    <3>2. list[i + 1] = list[i] + 1
      BY <3>1, <1>7 DEF Inv, Linked, NoGap
    <3>3. list[s] + n # N
      <4>1. list[i + 1] \in 0..(N - 1)
        BY <3>1, ListFacts DEF Block
      <4> QED BY <4>1, <3>2, <1>1, <1>6
    <3>4. Place(list[s] + n) = i + 1
      BY <3>1, <3>2, <1>6, PlaceOf
    <3> QED BY <3>3, <3>4 DEF From
  <2> QED BY <2>1, <2>2
<1>9. Place(list[s]) = s
  BY <1>2, PlaceOf
<1>10. list' = SubSeq(list, 1, s) \o SubSeq(list, i + 1, L)
  <2>1. list' = SubSeq(list, 1, Place(list[i] - (n - 1))) \o From(list[i] - (n - 1), n)
    BY DEF Take
  <2> HIDE DEF s, L
  <2> QED BY <2>1, <1>6, <1>8, <1>9
<1>11. /\ SubSeq(list, 1, s) \in Seq(Block) /\ Len(SubSeq(list, 1, s)) = s
       /\ \A j \in 1..s : SubSeq(list, 1, s)[j] = list[j]
  <2>1. 1 \in Int /\ s \in Int /\ 1 <= s /\ s - 1 + 1 = s
        /\ \A j \in 1..s : list[j] \in Block /\ 1 + j - 1 = j
    BY <1>1, <1>2, ListFacts
  <2> HIDE DEF s
  <2>2. /\ SubSeq(list, 1, s) \in Seq(Block)
        /\ Len(SubSeq(list, 1, s)) = IF 1 <= s THEN s - 1 + 1 ELSE 0
        /\ \A j \in 1..(s - 1 + 1) : SubSeq(list, 1, s)[j] = list[1 + j - 1]
    BY <2>1, SubSeqProperties
  <2> QED BY <2>1, <2>2
<1>12. /\ SubSeq(list, i + 1, L) \in Seq(Block) /\ Len(SubSeq(list, i + 1, L)) = L - i
       /\ \A j \in 1..(L - i) : SubSeq(list, i + 1, L)[j] = list[i + j]
  <2>1. /\ i + 1 \in Int /\ L \in Int /\ L - (i + 1) + 1 = L - i
        /\ (IF i + 1 <= L THEN L - (i + 1) + 1 ELSE 0) = L - i
        /\ \A j \in 1..(L - i) : (i + 1) + j - 1 = i + j
    BY <1>1
  <2>2. \A j \in (i + 1)..L : list[j] \in Block
    BY <1>1, ListFacts
  <2> HIDE DEF L
  <2>3. /\ SubSeq(list, i + 1, L) \in Seq(Block)
        /\ Len(SubSeq(list, i + 1, L)) = IF i + 1 <= L THEN L - (i + 1) + 1 ELSE 0
        /\ \A j \in 1..(L - (i + 1) + 1) : SubSeq(list, i + 1, L)[j] = list[(i + 1) + j - 1]
    BY <2>1, <2>2, SubSeqProperties
  <2> QED BY <2>1, <2>3
<1>13. /\ list' \in Seq(Block) /\ Len(list') = L - n + 1
       /\ \A j \in 1..(L - n + 1) : list'[j] = IF j <= s THEN list[j] ELSE list[j + n - 1]
  <2> DEFINE s1 == SubSeq(list, 1, s)
             s2 == SubSeq(list, i + 1, L)
  <2>1. /\ s1 \in Seq(Block) /\ s2 \in Seq(Block) /\ Len(s1) = s /\ Len(s2) = L - i
        /\ \A j \in 1..s : s1[j] = list[j]
        /\ \A j \in 1..(L - i) : s2[j] = list[i + j]
    BY <1>11, <1>12
  <2> HIDE DEF s1, s2
  <2>2. /\ s1 \o s2 \in Seq(Block) /\ Len(s1 \o s2) = Len(s1) + Len(s2)
        /\ \A j \in 1..(Len(s1) + Len(s2)) :
             (s1 \o s2)[j] = IF j <= Len(s1) THEN s1[j] ELSE s2[j - Len(s1)]
    BY <2>1, ConcatProperties
  <2>3. s + (L - i) = L - n + 1
    BY <1>1, <1>2
  <2>4. list' = s1 \o s2
    BY <1>10 DEF s1, s2
  <2>5. \A j \in 1..(L - n + 1) : list'[j] = IF j <= s THEN s1[j] ELSE s2[j - s]
    BY <2>1, <2>2, <2>3, <2>4
  <2>6. ASSUME NEW j \in 1..(L - n + 1)
        PROVE  list'[j] = IF j <= s THEN list[j] ELSE list[j + n - 1]
    <3>1. CASE j <= s
      <4>1. j \in 1..s
        BY <3>1, <1>1
      <4> QED BY <3>1, <4>1, <2>1, <2>5
    <3>2. CASE ~(j <= s)
      <4>1. j - s \in 1..(L - i) /\ i + (j - s) = j + n - 1
        BY <3>2, <1>1, <1>2
      <4>2. s2[j - s] = list[j + n - 1]
        <5>1. s2[j - s] = list[i + (j - s)]
          BY <4>1, <2>1
        <5> QED BY <5>1, <4>1
      <4> QED BY <3>2, <4>2, <2>5
    <3> QED BY <3>1, <3>2
  <2> QED BY <2>1, <2>2, <2>3, <2>4, <2>6
<1>14. /\ block_num' \in [Block -> 0..N] /\ pid' \in [Block -> Pid]
       /\ \A c \in Block : block_num'[c] = IF c = list[s] THEN n ELSE block_num[c]
       /\ \A c \in Block : pid'[c] = IF c = list[s] THEN p ELSE pid[c]
  <2>1. block_num' = [block_num EXCEPT ![list[s]] = n] /\ pid' = [pid EXCEPT ![list[s]] = p]
    BY <1>6 DEF Take
  <2>2. block_num \in [Block -> 0..N] /\ pid \in [Block -> Pid] /\ n \in 0..N
    BY <1>1 DEF Inv, TypeOK
  <2> HIDE DEF s
  <2> QED BY <2>1, <2>2, <1>5
<1>15. tail' \in {"head", "beyond"}
  BY DEF Take, Inv, TypeOK
<1>16. Merged(list, L, block_num, s, n, list', Len(list'), block_num')
  <2>1. s + n - 1 <= L /\ s + n - 1 = i
    BY <1>1, <1>2
  <2> HIDE DEF s, L
  <2> QED BY <2>1, <1>3, <1>13, <1>14 DEF Merged
<1> QED BY <1>2, <1>6, <1>13, <1>14, <1>15, <1>16

(***************************************************************************)
(* __mm_free opens the area again.                                         *)
(***************************************************************************)
LEMMA EndsInPool ==
  ASSUME Inv, NEW i \in 1..Len(list), NEW n \in 1..N, n = block_num[list[i]]
  PROVE  list[i] + n <= N
<1>1. Wide(block_num, list[i]) = n /\ N \in Nat /\ n \in Nat \ {0} /\ list[i] \in Nat
  BY ListFacts DEF Wide
<1>2. CASE i = Len(list)
  BY <1>1, <1>2 DEF Inv, Linked, Ends
<1>3. CASE i # Len(list)
  <2>1. i \in 1..(Len(list) - 1) /\ i + 1 \in 1..Len(list)
    BY <1>3, ListFacts, NextPlace
  <2>2. list[i + 1] = list[i] + n
    BY <2>1, <1>1 DEF Inv, Linked, NoGap
  <2>3. list[i + 1] \in 0..(N - 1)
    BY <2>1, ListFacts DEF Block
  <2> QED BY <2>2, <2>3, <1>1
<1> QED BY <1>2, <1>3

LEMMA ReturnOpens ==
  ASSUME Inv, NEW i \in DOMAIN list, ~IsFree(i), Return(i)
  PROVE  LET n == block_num[list[i]]
         IN  /\ n \in 1..N /\ i \in 1..Len(list)
             /\ Opened(list, Len(list), block_num, i, n, list', Len(list'), block_num')
             /\ list' \in Seq(Block) /\ block_num' \in [Block -> 0..N]
             /\ pid' \in [Block -> Pid]
             /\ \A c \in Block :
                  pid'[c] = IF c \in list[i]..(list[i] + n - 1) THEN 0 ELSE pid[c]
<1> DEFINE L == Len(list)
           n == block_num[list[i]]
           M == L + n - 1
<1>1. N \in Nat \ {0} /\ L \in Nat \ {0} /\ i \in 1..L
  BY ListFacts
<1>2. list[i] \in Nat /\ list[i] \in Block /\ block_num[list[i]] \in 0..N
  BY <1>1, ListFacts DEF Inv, TypeOK
<1>3. n \in 1..N /\ n \in Nat \ {0} /\ M \in Nat \ {0} /\ M = L + n - 1
  BY <1>1, <1>2 DEF IsFree
<1>4. list[i] + n <= N
  BY <1>1, <1>3, EndsInPool
<1>5. /\ block_num' = [c \in Block |-> IF c \in list[i]..(list[i] + n - 1) THEN 0 ELSE block_num[c]]
      /\ pid' = [c \in Block |-> IF c \in list[i]..(list[i] + n - 1) THEN 0 ELSE pid[c]]
      /\ list' = Split(i, n)
  BY DEF Return
<1>6. /\ block_num' \in [Block -> 0..N] /\ pid' \in [Block -> Pid]
      /\ \A c \in Block :
           block_num'[c] = IF c \in list[i]..(list[i] + n - 1) THEN 0 ELSE block_num[c]
      /\ \A c \in Block :
           pid'[c] = IF c \in list[i]..(list[i] + n - 1) THEN 0 ELSE pid[c]
  <2>1. block_num \in [Block -> 0..N] /\ pid \in [Block -> Pid] /\ 0 \in 0..N /\ 0 \in Pid
    BY <1>1, MmAssumption DEF Inv, TypeOK
  <2> HIDE DEF n
  <2> QED BY <2>1, <1>5
<1>7. /\ list' \in [1..M -> Block] /\ DOMAIN list' = 1..M
      /\ \A j \in 1..M : list'[j] = IF j < i THEN list[j]
                                    ELSE IF j < i + n THEN list[i] + (j - i)
                                    ELSE list[j - n + 1]
  <2>1. list' = [j \in 1..M |-> IF j < i THEN list[j]
                                ELSE IF j < i + n THEN list[i] + (j - i)
                                ELSE list[j - n + 1]]
    BY <1>5 DEF Split
  <2>2. ASSUME NEW j \in 1..M
        PROVE  (IF j < i THEN list[j]
                ELSE IF j < i + n THEN list[i] + (j - i)
                ELSE list[j - n + 1]) \in Block
    <3>1. CASE j < i
      <4>1. j \in 1..L
        BY <3>1, <1>1, <1>3
      <4> QED BY <3>1, <4>1, ListFacts
    <3>2. CASE ~(j < i) /\ j < i + n
      <4>1. j - i \in 0..(n - 1)
        BY <3>2, <1>1, <1>3
      <4>2. list[i] + (j - i) \in Block
        <5> HIDE DEF n
        <5> QED BY <4>1, <1>1, <1>2, <1>3, <1>4, InsidePool DEF Block
      <4> QED BY <3>2, <4>2
    <3>3. CASE ~(j < i) /\ ~(j < i + n)
      <4>1. j - n + 1 \in 1..L
        BY <3>3, <1>1, <1>3
      <4> QED BY <3>3, <4>1, ListFacts
    <3> QED BY <3>1, <3>2, <3>3
  <2> HIDE DEF M, n
  <2> QED BY <2>1, <2>2
<1>8. list' \in Seq(Block) /\ Len(list') = M
  <2> HIDE DEF M
  <2>1. list' \in Seq(Block)
    <3>1. list' \in UNION {[1..k -> Block] : k \in Nat}
      BY <1>3, <1>7
    <3> QED BY <3>1, SeqDef
  <2> QED BY <2>1, <1>3, <1>7, LenOfFunction
<1>9. Opened(list, L, block_num, i, n, list', Len(list'), block_num')
  BY <1>3, <1>6, <1>7, <1>8 DEF Opened
<1> QED BY <1>1, <1>3, <1>6, <1>8, <1>9

-----------------------------------------------------------------------------
(***************************************************************************)
(* The invariant.                                                          *)
(***************************************************************************)
FreeHaveNoPid == \A i \in 1..Len(list) : IsFree(i) => pid[list[i]] = 0

LEMMA InitInv ==
  ASSUME Init
  PROVE  Inv
<1>1. N \in Nat \ {0} /\ 0 \in Pid
  BY MmAssumption
<1>2. list \in [1..N -> Block] /\ DOMAIN list = 1..N /\ \A i \in 1..N : list[i] = i - 1
  <2>1. list = [i \in 1..N |-> i - 1]
    BY DEF Init
  <2>2. \A i \in 1..N : i - 1 \in Block
    BY <1>1 DEF Block
  <2> QED BY <2>1, <2>2
<1>3. list \in Seq(Block) /\ Len(list) = N
  <2>1. list \in UNION {[1..k -> Block] : k \in Nat}
    BY <1>1, <1>2
  <2>2. list \in Seq(Block)
    BY <2>1, SeqDef
  <2> QED BY <2>2, <1>1, <1>2, LenOfFunction
<1>4. /\ block_num \in [Block -> 0..N] /\ pid \in [Block -> Pid]
      /\ \A b \in Block : block_num[b] = 0 /\ pid[b] = 0
  <2>1. block_num = [b \in Block |-> 0] /\ pid = [b \in Block |-> 0]
    BY DEF Init
  <2>2. 0 \in 0..N /\ 0 \in Pid
    BY <1>1
  <2> QED BY <2>1, <2>2
<1>5. TypeOK
  <2>1. tail = "head" /\ sweep = 0 /\ cursor = 1 /\ lost = FALSE
    BY DEF Init
  <2>2. 1 \in Nat \ {0}
    OBVIOUS
  <2> QED BY <2>1, <2>2, <1>1, <1>3, <1>4, Zenon DEF TypeOK
<1>6. \A i \in 1..N : list[i] \in Block /\ list[i] \in Nat /\ Wide(block_num, list[i]) = 1
  BY <1>1, <1>2, <1>4 DEF Wide, Block
<1>7. Linked(list, N, block_num)
  <2>1. Ends(list, N, block_num)
    BY <1>1, <1>2, <1>6 DEF Ends
  <2>2. NoGap(list, N, block_num)
    BY <1>1, <1>2, <1>6 DEF NoGap
  <2>3. InOrder(list, N, block_num)
    BY <1>1, <1>2, <1>6 DEF InOrder
  <2>4. Covers(list, N, block_num)
    <3> SUFFICES ASSUME NEW b \in Block
                 PROVE  \E i \in 1..N : list[i] <= b /\ b < list[i] + Wide(block_num, list[i])
      BY DEF Covers
    <3>1. b + 1 \in 1..N /\ (b + 1) - 1 = b /\ b \in Nat
      BY <1>1 DEF Block
    <3>2. list[b + 1] = b /\ Wide(block_num, list[b + 1]) = 1
      BY <3>1, <1>2, <1>6
    <3> QED BY <3>1, <3>2
  <2>5. RunsCount(list, N, block_num)
    BY <1>1, <1>2 DEF RunsCount
  <2> QED BY <2>1, <2>2, <2>3, <2>4, <2>5 DEF Linked
<1>8. Swept
  BY DEF Swept, Init
<1>9. FreeHaveNoPid
  BY <1>3, <1>4, <1>6 DEF FreeHaveNoPid
<1> QED BY <1>3, <1>5, <1>7, <1>8, <1>9 DEF Inv, FreeHaveNoPid

LEMMA TakeKeepsInv ==
  ASSUME Inv, sweep = 0,
         NEW n \in 1..N, NEW i \in DOMAIN list, FreeRun(i, n), NEW p \in Pid,
         Take(list[i] - (n - 1), n, p)
  PROVE  Inv'
<1> DEFINE s == i - n + 1
           L == Len(list)
           M == Len(list')
<1>1. /\ s \in 1..L
      /\ Merged(list, L, block_num, s, n, list', M, block_num')
      /\ list' \in Seq(Block) /\ block_num' \in [Block -> 0..N]
      /\ pid' \in [Block -> Pid]
      /\ \A c \in Block : pid'[c] = IF c = list[s] THEN p ELSE pid[c]
      /\ tail' \in {"head", "beyond"}
  BY TakeMerges
<1>2. /\ L \in Nat \ {0} /\ list \in [1..L -> Block] /\ block_num \in [Block -> 0..N]
      /\ Linked(list, L, block_num) /\ M \in Nat /\ list' \in [1..M -> Block]
  BY <1>1, ListFacts, LenProperties DEF Inv, TypeOK
<1> HIDE DEF s, L, M
<1>3. Linked(list', M, block_num')
  BY <1>1, <1>2, MergeKeepsLinked
<1>4. sweep' = 0 /\ cursor' = cursor /\ lost' = lost
  BY DEF Take
<1>5. TypeOK'
  BY <1>1, <1>4 DEF TypeOK, Inv
<1>6. Swept'
  BY <1>4 DEF Swept
<1>7. \A j \in 1..M : block_num'[list'[j]] = 0 => pid'[list'[j]] = 0
  <2> SUFFICES ASSUME NEW j \in 1..M, block_num'[list'[j]] = 0 PROVE pid'[list'[j]] = 0
    OBVIOUS
  <2>1. list'[j] \in Block /\ n # 0
    BY <1>2
  <2>2. list'[j] # list[s] /\ block_num[list'[j]] = 0
    BY <2>1, <1>1 DEF Merged
  <2>3. PICK k \in 1..L : list'[j] = list[k]
    <3>1. CASE j <= s
      <4>1. j \in 1..L
        BY <3>1, <1>1, <1>2
      <4> QED BY <3>1, <4>1, <1>1 DEF Merged
    <3>2. CASE ~(j <= s)
      <4>1. M = L - n + 1 /\ n \in Nat /\ n # 0
        BY <1>1, MmAssumption DEF Merged
      <4>2. j + n - 1 \in 1..L
        BY <3>2, <4>1, <1>1, <1>2
      <4> QED BY <3>2, <4>2, <1>1 DEF Merged
    <3> QED BY <3>1, <3>2
  <2>4. pid[list[k]] = 0
    BY <2>2, <2>3 DEF Inv, IsFree, L
  <2> QED BY <2>1, <2>2, <2>3, <2>4, <1>1
<1> QED BY <1>3, <1>5, <1>6, <1>7 DEF Inv, IsFree, M

LEMMA ReturnKeepsInv ==
  ASSUME Inv, NEW i \in DOMAIN list, ~IsFree(i), Return(i),
         \/ sweep = 0 /\ UNCHANGED <<sweep, cursor>>
         \/ i = cursor /\ cursor' = cursor + block_num[list[i]] /\ UNCHANGED sweep
  PROVE  Inv'
<1> DEFINE n == block_num[list[i]]
           L == Len(list)
           M == Len(list')
<1>1. /\ n \in 1..N /\ i \in 1..L
      /\ Opened(list, L, block_num, i, n, list', M, block_num')
      /\ list' \in Seq(Block) /\ block_num' \in [Block -> 0..N]
      /\ pid' \in [Block -> Pid]
      /\ \A c \in Block :
           pid'[c] = IF c \in list[i]..(list[i] + n - 1) THEN 0 ELSE pid[c]
  BY ReturnOpens
<1>2. /\ L \in Nat \ {0} /\ list \in [1..L -> Block] /\ block_num \in [Block -> 0..N]
      /\ Linked(list, L, block_num) /\ M \in Nat /\ list' \in [1..M -> Block]
      /\ N \in Nat
  BY <1>1, ListFacts, LenProperties DEF Inv, TypeOK
<1>3. \/ sweep = 0 /\ sweep' = 0 /\ cursor' = cursor
      \/ i = cursor /\ cursor' = cursor + n /\ sweep' = sweep
  OBVIOUS
<1> HIDE DEF n, L, M
<1>4. Linked(list', M, block_num')
  BY <1>1, <1>2, OpenKeepsLinked
<1>5. TypeOK'
  <2>1. cursor' \in Nat \ {0}
    BY <1>1, <1>2, <1>3 DEF Inv, TypeOK
  <2> QED BY <2>1, <1>1, <1>3 DEF TypeOK, Inv, Return
<1>6. \A j \in 1..M : j < i => j \in 1..L /\ list'[j] = list[j]
  BY <1>1, <1>2 DEF Opened
<1>7. \A j \in 1..M : i <= j /\ j < i + n => pid'[list'[j]] = 0
  <2> SUFFICES ASSUME NEW j \in 1..M, i <= j, j < i + n PROVE pid'[list'[j]] = 0
    OBVIOUS
  <2>1. list[i] \in Nat /\ list'[j] \in Block
    BY <1>1, <1>2, ListFacts DEF L
  <2>2. ~(j < i) /\ j - i \in 0..(n - 1) /\ n \in Nat
    BY <1>1, <1>2
  <2>3. list'[j] = list[i] + (j - i)
    BY <2>2, <1>1 DEF Opened
  <2>4. list'[j] \in list[i]..(list[i] + n - 1)
    <3>1. list[i] + (j - i) \in list[i]..(list[i] + n - 1)
      BY <2>1, <2>2, InsideArea
    <3> QED BY <3>1, <2>3
  <2> QED BY <2>1, <2>4, <1>1
<1>8. Swept'
  <2> SUFFICES ASSUME sweep' # 0, NEW j \in 1..M, j < cursor'
               PROVE  pid'[list'[j]] # sweep'
    BY DEF Swept, M
  <2>1. i = cursor /\ cursor' = cursor + n /\ sweep' = sweep
    BY <1>3
  <2>2. CASE j < i
    <3>1. pid[list[j]] # sweep
      BY <2>1, <2>2, <1>6 DEF Inv, Swept, L
    <3>2. list[j] \in Block /\ pid'[list[j]] \in {0, pid[list[j]]}
      BY <2>2, <1>1, <1>2, <1>6
    <3> QED BY <3>1, <3>2, <2>1, <2>2, <1>6
  <2>3. CASE ~(j < i)
    <3>1. i <= j /\ j < i + n
      BY <2>1, <2>3, <1>1, <1>2
    <3> QED BY <3>1, <1>7
  <2> QED BY <2>2, <2>3
<1>9. \A j \in 1..M : block_num'[list'[j]] = 0 => pid'[list'[j]] = 0
  <2> SUFFICES ASSUME NEW j \in 1..M, block_num'[list'[j]] = 0 PROVE pid'[list'[j]] = 0
    OBVIOUS
  <2>1. list'[j] \in Block
    BY <1>2
  <2>2. CASE list'[j] \in list[i]..(list[i] + n - 1)
    BY <2>1, <2>2, <1>1
  <2>3. CASE list'[j] \notin list[i]..(list[i] + n - 1)
    <3>1. block_num[list'[j]] = 0 /\ pid'[list'[j]] = pid[list'[j]]
      BY <2>1, <2>3, <1>1 DEF Opened
    <3>2. ~(i <= j /\ j < i + n)
      <4> SUFFICES ASSUME i <= j, j < i + n PROVE FALSE
        OBVIOUS
      <4>1. list[i] \in Nat /\ ~(j < i) /\ j - i \in 0..(n - 1) /\ n \in Nat
        BY <1>1, <1>2, ListFacts DEF L
      <4>2. list'[j] = list[i] + (j - i)
        BY <4>1, <1>1 DEF Opened
      <4>3. list[i] + (j - i) \in list[i]..(list[i] + n - 1)
        BY <4>1, InsideArea
      <4> QED BY <4>2, <4>3, <2>3
    <3>3. PICK k \in 1..L : list'[j] = list[k]
      <4>1. CASE j < i
        BY <4>1, <1>6
      <4>2. CASE ~(j < i)
        <5>1. ~(j < i + n) /\ M = L + n - 1 /\ n \in Nat
          BY <4>2, <3>2, <1>1, <1>2 DEF Opened
        <5>2. j - n + 1 \in 1..L
          BY <5>1, <1>1, <1>2
        <5>3. list'[j] = list[j - n + 1]
          BY <4>2, <5>1, <1>1 DEF Opened
        <5> QED BY <5>2, <5>3
      <4> QED BY <4>1, <4>2
    <3>4. pid[list[k]] = 0
      BY <3>1, <3>3 DEF Inv, IsFree, L
    <3> QED BY <3>1, <3>3, <3>4
  <2> QED BY <2>2, <2>3
<1> QED BY <1>4, <1>5, <1>8, <1>9 DEF Inv, IsFree, M

LEMMA NextKeepsInv ==
  ASSUME Inv, [Next]_mmVars
  PROVE  Inv'
<1>1. ASSUME NEW size \in Sizes, NEW p \in Pid, Alloc(size, p) PROVE Inv'
  BY <1>1, TakeKeepsInv DEF Alloc, Found, Running
<1>2. ASSUME NEW size \in Sizes, AllocFails(size) PROVE Inv'
  <2>1. lost' \in BOOLEAN /\ UNCHANGED <<list, block_num, pid, tail, sweep, cursor>>
    BY <1>2 DEF AllocFails
  <2> QED BY <2>1 DEF Inv, TypeOK, Swept, IsFree
<1>3. ASSUME NEW i \in DOMAIN list, Release(i) PROVE Inv'
  BY <1>3, ReturnKeepsInv DEF Release, Running
<1>4. ASSUME NEW p \in Pid, SweepStart(p) PROVE Inv'
  <2>1. sweep' \in Pid /\ cursor' = 1 /\ UNCHANGED <<list, block_num, pid, tail, lost>>
    BY <1>4 DEF SweepStart
  <2>2. Swept'
    BY <2>1, ListFacts DEF Swept
  <2> QED BY <2>1, <2>2 DEF Inv, TypeOK, IsFree
<1>5. ASSUME SweepFree PROVE Inv'
  <2>1. cursor \in DOMAIN list /\ pid[list[cursor]] = sweep /\ sweep # 0
        /\ Return(cursor) /\ cursor' = cursor + block_num[list[cursor]] /\ UNCHANGED sweep
    BY <1>5 DEF SweepFree
  <2>2. ~IsFree(cursor)
    BY <2>1, ListFacts DEF Inv
  <2> QED BY <2>1, <2>2, ReturnKeepsInv
<1>6. ASSUME SweepPass PROVE Inv'
  <2>1. /\ cursor \in 1..Len(list) /\ pid[list[cursor]] # sweep /\ cursor' = cursor + 1
        /\ UNCHANGED <<list, block_num, pid, tail, sweep, lost>>
    BY <1>6, ListFacts DEF SweepPass
  <2>2. Swept'
    <3> SUFFICES ASSUME sweep # 0, NEW j \in 1..Len(list), j < cursor + 1
                 PROVE  pid[list[j]] # sweep
      BY <2>1 DEF Swept
    <3>1. j < cursor \/ j = cursor
      BY <2>1, ListFacts
    <3> QED BY <3>1, <2>1 DEF Inv, Swept
  <2>3. cursor' \in Nat \ {0}
    BY <2>1 DEF Inv, TypeOK
  <2> QED BY <2>1, <2>2, <2>3 DEF Inv, TypeOK, IsFree
<1>7. ASSUME SweepEnd PROVE Inv'
  <2>1. /\ lost' \in BOOLEAN /\ sweep' = 0 /\ cursor' = 1
        /\ UNCHANGED <<list, block_num, pid, tail>>
    BY <1>7 DEF SweepEnd
  <2>2. 0 \in Pid
    BY MmAssumption
  <2> QED BY <2>1, <2>2 DEF Inv, TypeOK, Swept, IsFree
<1>8. ASSUME UNCHANGED mmVars PROVE Inv'
  BY <1>8 DEF mmVars, Inv, TypeOK, Swept, IsFree
<1> QED BY <1>1, <1>2, <1>3, <1>4, <1>5, <1>6, <1>7, <1>8 DEF Next

LEMMA InvGivesTiled ==
  ASSUME Inv
  PROVE  Tiled
<1>1. \A b : Width(b) = Wide(block_num, b)
  BY DEF Width, Wide
<1>2. Len(list) \in Nat \ {0} /\ list \in Seq(Block)
  BY ListFacts DEF Inv, TypeOK
<1>3. list # <<>>
  BY <1>2
<1> QED BY <1>1, <1>3 DEF Tiled, Inv, Linked, Ends, NoGap

\* For every pool, request and set of pids the headers stay linked in the
\* order of their addresses, without a gap, from the start of the pool to its
\* end (mm/mm.c:50-90 keep what 39 and 60 compute by address).
THEOREM PoolTiled == Spec => [](TypeOK /\ Tiled)
<1>1. Init => Inv
  BY InitInv
<1>2. Inv /\ [Next]_mmVars => Inv'
  BY NextKeepsInv
<1>3. Inv => TypeOK /\ Tiled
  BY InvGivesTiled DEF Inv
<1> QED BY <1>1, <1>2, <1>3, PTL DEF Spec

-----------------------------------------------------------------------------
(***************************************************************************)
(* The list implements the allocator of Heap.                              *)
(***************************************************************************)
LEMMA PoolDefs ==
  /\ Pool!Areas = [at : 0..(N - 1), num : 1..N, pid : Pid]
  /\ \A a : Pool!Cover(a) = a.at .. (a.at + a.num - 1)
  /\ \A size, num : Pool!Need(size, num) <=> Need(size, num)
  /\ \A a : Pool!Free(a) <=> /\ a.at + a.num <= N
                             /\ \A l \in Live : Pool!Cover(l) \cap Pool!Cover(a) = {}
BY DEF Pool!Areas, Pool!Cover, Pool!Need, Pool!Holds, Need, Holds, Pool!Free

LEMMA LiveAreas ==
  ASSUME Inv, sweep = 0
  PROVE  /\ \A k \in 1..Len(list) : ~IsFree(k) => Area(list[k]) \in Live
         /\ \A l \in Live : \E k \in 1..Len(list) : ~IsFree(k) /\ l = Area(list[k])
<1>1. DOMAIN list = 1..Len(list)
  BY ListFacts
<1> QED BY <1>1 DEF Live, InUse, Heads, IsFree

LEMMA TakeIsAlloc ==
  ASSUME Inv, sweep = 0,
         NEW n \in 1..N, NEW i \in DOMAIN list, FreeRun(i, n), NEW p \in Pid,
         Take(list[i] - (n - 1), n, p),
         NEW size, Need(size, n)
  PROVE  Pool!Alloc(size, p)
<1> DEFINE s == i - n + 1
           L == Len(list)
           M == Len(list')
           a == [at |-> list[s], num |-> n, pid |-> p]
<1>1. /\ s \in 1..L /\ i = s + n - 1 /\ list[i] - (n - 1) = list[s]
      /\ Merged(list, L, block_num, s, n, list', M, block_num')
      /\ list' \in Seq(Block)
      /\ \A c \in Block : pid'[c] = IF c = list[s] THEN p ELSE pid[c]
  BY TakeMerges
<1>2. /\ L \in Nat \ {0} /\ N \in Nat \ {0} /\ n \in Nat \ {0} /\ M \in Nat
      /\ DOMAIN list' = 1..M /\ DOMAIN list = 1..L
      /\ \A k \in 1..L : list[k] \in Nat /\ list[k] \in Block
      /\ \A k \in 1..M : list'[k] \in Block
      /\ \A k \in 1..L : Wide(block_num, list[k]) \in Nat \ {0}
      /\ i \in 1..L
  <2>1. M \in Nat /\ DOMAIN list' = 1..M /\ list' \in [1..M -> Block]
    BY <1>1, LenProperties
  <2>2. n \in Nat \ {0}
    BY MmAssumption
  <2> HIDE DEF M
  <2> QED BY <2>1, <2>2, ListFacts
<1>3. sweep' = 0
  BY DEF Take
<1> HIDE DEF s, L, M
<1>4. /\ s + n - 1 <= L /\ M = L - n + 1 /\ s \in 1..M
      /\ \A k \in s..i : block_num[list[k]] = 0
      /\ \A b \in Block : block_num'[b] = IF b = list[s] THEN n ELSE block_num[b]
      /\ \A j \in 1..M : list'[j] = IF j <= s THEN list[j] ELSE list[j + n - 1]
  BY <1>1, <1>2 DEF Merged
<1>4a. /\ s \in Nat \ {0} /\ i \in Nat /\ i = s + n - 1 /\ i <= L
       /\ L \in Nat /\ n \in Nat \ {0} /\ M = L - n + 1
  BY <1>1, <1>2, <1>4
<1>5. a \in Pool!Areas
  <2>1. list[s] \in 0..(N - 1)
    BY <1>1, <1>2 DEF Block
  <2> QED BY <2>1, PoolDefs
<1>6. list[i] = list[s] + (n - 1) /\ Wide(block_num, list[i]) = 1
  <2>1. \A k \in s..(i - 1) : block_num[list[k]] = 0
    <3>1. \A k \in s..(i - 1) : k \in s..i
      BY <1>4a
    <3> QED BY <3>1, <1>4
  <2>2. list[i] = list[s] + (i - s)
    <3>1. s \in 1..L /\ i \in 1..L /\ s <= i
      BY <1>1, <1>2, <1>4a
    <3> QED BY <2>1, <3>1 DEF Inv, Linked, RunsCount, L
  <2>3. i - s = n - 1 /\ i \in s..i
    BY <1>1, <1>2
  <2> QED BY <2>2, <2>3, <1>4 DEF Wide
<1>7. Pool!Free(a)
  <2>1. a.at = list[s] /\ a.num = n
    OBVIOUS
  <2>2. list[s] + n <= N
    <3>1. list[i] \in 0..(N - 1)
      BY <1>2 DEF Block
    <3> QED BY <3>1, <1>1, <1>2, <1>6
  <2>3. ASSUME NEW l \in Live PROVE Pool!Cover(l) \cap Pool!Cover(a) = {}
    <3>1. PICK k \in 1..L : ~IsFree(k) /\ l = Area(list[k])
      BY LiveAreas DEF L
    <3>2. l.at = list[k] /\ l.num = Wide(block_num, list[k])
      BY <3>1 DEF Area, IsFree, Wide
    <3>3. k < s \/ i < k
      <4>1. k \notin s..i
        BY <3>1, <1>4 DEF IsFree
      <4> QED BY <4>1, <1>1, <1>2
    <3>4. \/ list[k] + Wide(block_num, list[k]) <= list[s]
          \/ list[s] + n <= list[k]
      <4>1. CASE k < s
        BY <4>1, <1>1 DEF Inv, Linked, InOrder, L
      <4>2. CASE i < k
        <5>1. list[i] + 1 <= list[k]
          BY <4>2, <1>2, <1>6 DEF Inv, Linked, InOrder, L
        <5> QED BY <5>1, <1>1, <1>2, <1>6
      <4> QED BY <3>3, <4>1, <4>2
    <3>5. Pool!Cover(l) = list[k]..(list[k] + Wide(block_num, list[k]) - 1)
          /\ Pool!Cover(a) = list[s]..(list[s] + n - 1)
      BY <2>1, <3>2, PoolDefs
    <3>6. list[k] \in Nat /\ list[s] \in Nat /\ Wide(block_num, list[k]) \in Nat
      BY <1>1, <1>2
    <3> QED BY <3>4, <3>5, <3>6, <1>4a, Apart
  <2> QED BY <2>1, <2>2, <2>3, PoolDefs
<1>8. \A k \in 1..L : list[k] = list[s] => k = s
  BY <1>1, OnePlace DEF L
<1>9. Live' = Live \cup {a}
  <2>1. \A b : b \in Heads' /\ b # list[s] =>
          b \in Heads /\ Area(b)' = Area(b) /\ block_num'[b] = block_num[b]
    <3> SUFFICES ASSUME NEW j \in 1..M, list'[j] # list[s]
                 PROVE  /\ list'[j] \in Heads
                        /\ block_num'[list'[j]] = block_num[list'[j]]
                        /\ pid'[list'[j]] = pid[list'[j]]
      BY <1>2 DEF Heads, Area
    <3>1. list'[j] \in Heads
      <4>1. CASE j <= s
        <5>1. j \in 1..L
          BY <4>1, <1>1, <1>2
        <5> QED BY <4>1, <5>1, <1>2, <1>4 DEF Heads
      <4>2. CASE ~(j <= s)
        <5>1. j + n - 1 \in 1..L
          BY <4>2, <1>1, <1>2, <1>4
        <5> QED BY <4>2, <5>1, <1>2, <1>4 DEF Heads
      <4> QED BY <4>1, <4>2
    <3> QED BY <3>1, <1>1, <1>2, <1>4
  <2>2. \A b : b \in Heads /\ block_num[b] # 0 => b \in Heads' /\ b # list[s] /\ b \in Block
    <3> SUFFICES ASSUME NEW k \in 1..L, block_num[list[k]] # 0
                 PROVE  list[k] \in Heads' /\ list[k] # list[s]
      BY <1>2 DEF Heads
    <3>1. k \notin s..i
      BY <1>4
    <3>2. k < s \/ k > i
      BY <3>1, <1>4a
    <3>3. CASE k < s
      <4>1. k \in 1..M /\ k <= s /\ k # s
        BY <3>3, <1>4a
      <4> QED BY <4>1, <1>2, <1>4, <1>8 DEF Heads
    <3>4. CASE k > i
      <4>1. k - n + 1 \in 1..M /\ ~(k - n + 1 <= s) /\ (k - n + 1) + n - 1 = k /\ k # s
        BY <3>4, <1>4a
      <4>2. list'[k - n + 1] = list[k]
        BY <4>1, <1>4
      <4> QED BY <4>1, <4>2, <1>2, <1>8 DEF Heads
    <3> QED BY <3>2, <3>3, <3>4
  <2>3. /\ list[s] \in Heads' /\ block_num'[list[s]] # 0
        /\ \A b : b = list[s] => Area(b)' = a
    <3>1. list'[s] = list[s] /\ list[s] \in Block
      BY <1>1, <1>2, <1>4
    <3>2. block_num'[list[s]] = n /\ pid'[list[s]] = p
      BY <3>1, <1>1, <1>4
    <3>3. list[s] \in Heads'
      BY <3>1, <1>2, <1>4 DEF Heads
    <3> QED BY <3>1, <3>2, <3>3, <1>2 DEF Area
  <2> QED BY <2>1, <2>2, <2>3, <1>3 DEF Live, InUse
<1> QED BY <1>5, <1>7, <1>9, PoolDefs DEF Pool!Alloc

\* The headers in use but the one of the area stay what they are.
LEMMA ReturnKeepsOthers ==
  ASSUME Inv, NEW i \in DOMAIN list, ~IsFree(i), Return(i)
  PROVE  /\ i \in 1..Len(list)
         /\ \A b : b \in Heads' /\ block_num'[b] # 0 <=>
                   b \in Heads /\ block_num[b] # 0 /\ b # list[i]
         /\ \A b : b \in Heads /\ block_num[b] # 0 /\ b # list[i] =>
                   block_num'[b] = block_num[b] /\ pid'[b] = pid[b]
<1> DEFINE n == block_num[list[i]]
           L == Len(list)
           M == Len(list')
<1>1. /\ n \in 1..N /\ i \in 1..L
      /\ Opened(list, L, block_num, i, n, list', M, block_num')
      /\ list' \in Seq(Block)
      /\ \A c \in Block :
           pid'[c] = IF c \in list[i]..(list[i] + n - 1) THEN 0 ELSE pid[c]
  BY ReturnOpens
<1>2. /\ L \in Nat \ {0} /\ N \in Nat \ {0} /\ n \in Nat \ {0} /\ M \in Nat
      /\ DOMAIN list' = 1..M /\ DOMAIN list = 1..L
      /\ \A k \in 1..L : list[k] \in Nat /\ list[k] \in Block
      /\ \A k \in 1..M : list'[k] \in Block
  <2>1. M \in Nat /\ DOMAIN list' = 1..M /\ list' \in [1..M -> Block]
    BY <1>1, LenProperties
  <2>2. n \in Nat \ {0}
    BY <1>1, MmAssumption
  <2> HIDE DEF M, n
  <2> QED BY <2>1, <2>2, ListFacts
<1>3. \A k \in 1..L : k < i => list[k] < list[i]
  BY <1>1, ListFacts
<1>4. \A k \in 1..L : i < k => list[i] + n <= list[k]
  <2>1. Wide(block_num, list[i]) = n
    BY <1>2 DEF Wide
  <2> HIDE DEF n
  <2> QED BY <2>1, <1>1 DEF Inv, Linked, InOrder
<1> HIDE DEF n, L, M
<1>5. /\ M = L + n - 1
      /\ \A b \in Block : block_num'[b] = IF b \in list[i]..(list[i] + n - 1) THEN 0 ELSE block_num[b]
      /\ \A j \in 1..M : list'[j] = IF j < i THEN list[j]
                                    ELSE IF j < i + n THEN list[i] + (j - i)
                                    ELSE list[j - n + 1]
  BY <1>1 DEF Opened
<1>6. /\ i \in Nat \ {0} /\ i <= L /\ L \in Nat /\ n \in Nat \ {0} /\ M = L + n - 1
      /\ list[i] \in Nat
  BY <1>1, <1>2, <1>5
<1>7. \A k \in 1..L : k # i => list[k] \notin list[i]..(list[i] + n - 1) /\ list[k] # list[i]
  <2> SUFFICES ASSUME NEW k \in 1..L, k # i
               PROVE  list[k] \notin list[i]..(list[i] + n - 1) /\ list[k] # list[i]
    OBVIOUS
  <2>1. list[k] \in Nat
    BY <1>2
  <2>2. CASE k < i
    <3>1. list[k] < list[i]
      BY <2>2, <1>3
    <3> QED BY <3>1, <2>1, <1>6
  <2>3. CASE i < k
    <3>1. list[i] + n <= list[k]
      BY <2>3, <1>4
    <3> QED BY <3>1, <2>1, <1>6
  <2> QED BY <2>2, <2>3, <1>6
<1>8. ASSUME NEW b, b \in Heads, block_num[b] # 0, b # list[i]
      PROVE  b \in Heads' /\ block_num'[b] = block_num[b] /\ pid'[b] = pid[b]
  <2>1. PICK k \in 1..L : b = list[k]
    BY <1>2, <1>8 DEF Heads
  <2>2. k # i
    BY <2>1, <1>8
  <2>3. b \in Block /\ b \notin list[i]..(list[i] + n - 1)
    BY <2>1, <2>2, <1>2, <1>7
  <2>4. b \in Heads'
    <3>1. CASE k < i
      <4>1. k \in 1..M
        BY <3>1, <1>6
      <4> QED BY <3>1, <4>1, <2>1, <1>2, <1>5 DEF Heads
    <3>2. CASE i < k
      <4>1. k + n - 1 \in 1..M /\ ~(k + n - 1 < i) /\ ~(k + n - 1 < i + n)
            /\ (k + n - 1) - n + 1 = k
        BY <3>2, <1>6
      <4>2. list'[k + n - 1] = list[k]
        <5>1. list'[k + n - 1] = list[(k + n - 1) - n + 1]
          BY <4>1, <1>5
        <5> QED BY <5>1, <4>1
      <4> QED BY <4>1, <4>2, <2>1, <1>2 DEF Heads
    <3> QED BY <3>1, <3>2, <2>2, <1>6
  <2> QED BY <2>3, <2>4, <1>1, <1>5
<1>9. ASSUME NEW b, b \in Heads', block_num'[b] # 0
      PROVE  b \in Heads /\ block_num[b] # 0 /\ b # list[i]
  <2>1. PICK j \in 1..M : b = list'[j]
    BY <1>2, <1>9 DEF Heads
  <2>2. b \in Block
    BY <2>1, <1>2
  <2>3. b \notin list[i]..(list[i] + n - 1) /\ block_num[b] # 0
    BY <2>2, <1>5, <1>9
  <2>4. list[i] \in list[i]..(list[i] + n - 1)
    BY <1>6
  <2>5. b \in Heads
    <3>1. CASE j < i
      <4>1. j \in 1..L
        BY <3>1, <1>6
      <4> QED BY <3>1, <4>1, <2>1, <1>2, <1>5 DEF Heads
    <3>2. CASE ~(j < i) /\ j < i + n
      <4>1. j - i \in 0..(n - 1) /\ n \in Nat
        BY <3>2, <1>6
      <4>2. list[i] + (j - i) \in list[i]..(list[i] + n - 1)
        BY <4>1, <1>6, InsideArea
      <4> QED BY <3>2, <4>2, <2>1, <2>3, <1>5
    <3>3. CASE ~(j < i) /\ ~(j < i + n)
      <4>1. j - n + 1 \in 1..L
        BY <3>3, <1>6
      <4> QED BY <3>3, <4>1, <2>1, <1>2, <1>5 DEF Heads
    <3> QED BY <3>1, <3>2, <3>3
  <2> QED BY <2>3, <2>4, <2>5
<1> QED BY <1>1, <1>8, <1>9 DEF L

LEMMA ReleaseIsRelease ==
  ASSUME Inv, NEW i \in DOMAIN list, Release(i)
  PROVE  \E a \in Pool!Areas : Pool!Release(a)
<1> DEFINE a == Area(list[i])
<1>1. sweep = 0 /\ sweep' = 0 /\ ~IsFree(i) /\ Return(i)
  BY DEF Release, Running
<1>2. /\ i \in 1..Len(list)
      /\ \A b : b \in Heads' /\ block_num'[b] # 0 <=>
                b \in Heads /\ block_num[b] # 0 /\ b # list[i]
      /\ \A b : b \in Heads /\ block_num[b] # 0 /\ b # list[i] =>
                block_num'[b] = block_num[b] /\ pid'[b] = pid[b]
  BY <1>1, ReturnKeepsOthers
<1>3. a \in Live
  BY <1>1, <1>2, LiveAreas
<1>4. a \in Pool!Areas
  <2>1. list[i] \in Block /\ block_num[list[i]] \in 1..N /\ pid[list[i]] \in Pid
    <3>1. list[i] \in Block
      BY <1>2, ListFacts
    <3>2. block_num[list[i]] \in 0..N /\ block_num[list[i]] # 0 /\ pid[list[i]] \in Pid
      BY <3>1, <1>1 DEF Inv, TypeOK, IsFree
    <3> QED BY <3>1, <3>2, MmAssumption
  <2> QED BY <2>1, PoolDefs DEF Area, Block
<1>5. Live' = Live \ {a}
  <2>1. InUse = {b \in Heads : block_num[b] # 0}
        /\ InUse' = {b \in Heads' : block_num'[b] # 0}
    BY <1>1 DEF InUse
  <2>2. \A b : b \in InUse' <=> b \in InUse /\ b # list[i]
    BY <2>1, <1>2
  <2>3. \A b : b \in InUse' => Area(b)' = Area(b)
    BY <2>1, <2>2, <1>2 DEF Area
  <2>4. \A b : Area(b) = a <=> b = list[i]
    BY DEF Area
  <2>5. Live' = {Area(b)' : b \in InUse'}
    BY DEF Live
  <2> HIDE DEF a
  <2> QED BY <2>2, <2>3, <2>4, <2>5 DEF Live
<1> QED BY <1>3, <1>4, <1>5 DEF Pool!Release

LEMMA SweepFreeStutters ==
  ASSUME Inv, SweepFree
  PROVE  UNCHANGED Live
<1>1. /\ cursor \in DOMAIN list /\ pid[list[cursor]] = sweep /\ sweep # 0
      /\ Return(cursor) /\ sweep' = sweep
  BY DEF SweepFree
<1>2. ~IsFree(cursor)
  BY <1>1, ListFacts DEF Inv
<1>3. /\ \A b : b \in Heads' /\ block_num'[b] # 0 <=>
                b \in Heads /\ block_num[b] # 0 /\ b # list[cursor]
      /\ \A b : b \in Heads /\ block_num[b] # 0 /\ b # list[cursor] =>
                block_num'[b] = block_num[b] /\ pid'[b] = pid[b]
  BY <1>1, <1>2, ReturnKeepsOthers
<1>4. \A b : b \in InUse' <=> b \in InUse
  <2>1. \A b : b \in InUse <=> b \in Heads /\ block_num[b] # 0 /\ pid[b] # sweep
    BY <1>1 DEF InUse
  <2>2. \A b : b \in InUse' <=> b \in Heads' /\ block_num'[b] # 0 /\ pid'[b] # sweep
    BY <1>1 DEF InUse
  <2> QED BY <2>1, <2>2, <1>1, <1>3
<1>5. \A b : b \in InUse => Area(b)' = Area(b)
  <2>1. \A b : b \in InUse => b \in Heads /\ block_num[b] # 0 /\ b # list[cursor]
    BY <1>1 DEF InUse
  <2> QED BY <2>1, <1>3 DEF Area
<1>6. Live' = {Area(b)' : b \in InUse'}
  BY DEF Live
<1> QED BY <1>4, <1>5, <1>6 DEF Live

LEMMA SweepEndStutters ==
  ASSUME Inv, SweepEnd
  PROVE  UNCHANGED Live
<1>1. /\ sweep # 0 /\ cursor \notin DOMAIN list /\ sweep' = 0
      /\ UNCHANGED <<list, block_num, pid, tail>>
  BY DEF SweepEnd
<1>2. \A i \in 1..Len(list) : i < cursor
  <2>1. DOMAIN list = 1..Len(list) /\ Len(list) \in Nat /\ cursor \in Nat \ {0}
    BY ListFacts DEF Inv, TypeOK
  <2>2. cursor > Len(list)
    BY <1>1, <2>1
  <2> QED BY <2>1, <2>2
<1>3. \A b \in Heads : pid[b] # sweep
  BY <1>1, <1>2, ListFacts DEF Heads, Inv, Swept
<1>4. Heads' = Heads
  BY <1>1 DEF Heads
<1>5. InUse' = InUse
  BY <1>1, <1>3, <1>4 DEF InUse
<1>6. \A b : Area(b)' = Area(b)
  BY <1>1 DEF Area
<1>7. Live' = {Area(b)' : b \in InUse'}
  BY DEF Live
<1> QED BY <1>5, <1>6, <1>7 DEF Live

LEMMA SweepStartReleases ==
  ASSUME Inv, NEW p \in Pid, SweepStart(p)
  PROVE  Pool!ReleasePid(p)
<1>1. sweep = 0 /\ sweep' = p /\ p # 0 /\ UNCHANGED <<list, block_num, pid, tail, lost>>
  BY DEF SweepStart, Running
<1>2. Heads' = Heads /\ \A b : Area(b)' = Area(b)
  BY <1>1 DEF Heads, Area
<1>3. \A b : b \in InUse' <=> b \in InUse /\ pid[b] # p
  BY <1>1, <1>2 DEF InUse
<1>4. \A b : Area(b).pid = pid[b]
  BY DEF Area
<1>5. Live' = {Area(b)' : b \in InUse'}
  BY DEF Live
<1>6. Live' = {a \in Live : a.pid # p}
  BY <1>2, <1>3, <1>4, <1>5 DEF Live
<1> QED BY <1>6 DEF Pool!ReleasePid

\* Free blocks side by side are headers side by side, so that the counter of
\* __find_block finds the run.
LEMMA FreeAreaIsFound ==
  ASSUME Inv, sweep = 0, NEW a \in Pool!Areas, Pool!Free(a)
  PROVE  \E i \in DOMAIN list : FreeRun(i, a.num)
<1> DEFINE n == a.num
           f == a.at
           e == a.at + a.num - 1
           L == Len(list)
<1>1. /\ f \in Nat /\ f < N /\ n \in Nat \ {0} /\ N \in Nat \ {0} /\ f + n <= N
      /\ e = f + n - 1 /\ n \in 1..N
  <2>1. f \in 0..(N - 1) /\ n \in 1..N /\ f + n <= N
    BY PoolDefs
  <2> HIDE DEF f, n
  <2> QED BY <2>1, MmAssumption DEF f, n
<1>2. /\ L \in Nat \ {0} /\ DOMAIN list = 1..L
      /\ \A k \in 1..L : list[k] \in Nat /\ list[k] \in Block
      /\ \A k \in 1..L : Wide(block_num, list[k]) \in Nat \ {0}
  BY ListFacts
<1>3. \A l \in Live : Pool!Cover(l) \cap (f..e) = {}
  BY PoolDefs
<1> HIDE DEF n, f, e, L
<1>4. ASSUME NEW k \in 1..L, NEW c \in f..e,
             list[k] <= c, c < list[k] + Wide(block_num, list[k])
      PROVE  block_num[list[k]] = 0 /\ c = list[k]
  <2>1. block_num[list[k]] = 0
    <3> SUFFICES ASSUME block_num[list[k]] # 0 PROVE FALSE
      OBVIOUS
    <3>1. Area(list[k]) \in Live
      BY LiveAreas DEF IsFree, L
    <3>2. Pool!Cover(Area(list[k])) = list[k]..(list[k] + block_num[list[k]] - 1)
      <4>1. Area(list[k]).at = list[k] /\ Area(list[k]).num = block_num[list[k]]
        BY DEF Area
      <4> QED BY <4>1, PoolDefs
    <3>3. Wide(block_num, list[k]) = block_num[list[k]]
      BY DEF Wide
    <3>4. c \in list[k]..(list[k] + block_num[list[k]] - 1)
      BY <1>1, <1>2, <1>4, <3>3
    <3> QED BY <3>1, <3>2, <3>4, <1>3
  <2>2. Wide(block_num, list[k]) = 1 /\ list[k] \in Nat /\ c \in Nat
    BY <2>1, <1>1, <1>2 DEF Wide
  <2>3. c = list[k]
    BY <2>2, <1>4, OneWide
  <2> QED BY <2>1, <2>3
<1>5. \A c \in f..e : c \in Block
  BY <1>1 DEF Block
<1>6. f \in f..e /\ e \in f..e
  BY <1>1
<1>7. PICK p \in 1..L : list[p] = f
  <2>1. PICK p \in 1..L : list[p] <= f /\ f < list[p] + Wide(block_num, list[p])
    BY <1>5, <1>6 DEF Inv, Linked, Covers, L
  <2> QED BY <2>1, <1>4, <1>6
<1>8. PICK q \in 1..L : list[q] = e
  <2>1. PICK q \in 1..L : list[q] <= e /\ e < list[q] + Wide(block_num, list[q])
    BY <1>5, <1>6 DEF Inv, Linked, Covers, L
  <2> QED BY <2>1, <1>4, <1>6
<1>9. p <= q
  <2> SUFFICES ASSUME q < p PROVE FALSE
    BY <1>2
  <2>1. list[q] < list[p]
    BY ListFacts DEF L
  <2> QED BY <2>1, <1>1, <1>7, <1>8
<1>10. \A k \in p..q : block_num[list[k]] = 0
  <2> SUFFICES ASSUME NEW k \in p..q PROVE block_num[list[k]] = 0
    OBVIOUS
  <2>1. k \in 1..L /\ p <= k /\ k <= q /\ k \in Nat /\ p \in Nat /\ q \in Nat
    BY <1>2
  <2>2. f <= list[k]
    <3>1. CASE k = p
      BY <3>1, <1>1, <1>7
    <3>2. CASE k # p
      <4>1. list[p] < list[k]
        <5>1. p < k
          BY <3>2, <2>1
        <5> QED BY <5>1, <2>1, ListFacts DEF L
      <4> QED BY <4>1, <2>1, <1>1, <1>2, <1>7
    <3> QED BY <3>1, <3>2
  <2>3. list[k] <= e
    <3>1. CASE k = q
      BY <3>1, <1>1, <1>8
    <3>2. CASE k # q
      <4>1. list[k] < list[q]
        <5>1. k < q
          BY <3>2, <2>1
        <5> QED BY <5>1, <2>1, ListFacts DEF L
      <4> QED BY <4>1, <2>1, <1>1, <1>2, <1>8
    <3> QED BY <3>1, <3>2
  <2>4. list[k] \in f..e
    BY <2>1, <2>2, <2>3, <1>1, <1>2
  <2>5. list[k] <= list[k] /\ list[k] < list[k] + Wide(block_num, list[k])
    BY <2>1, <1>2
  <2> QED BY <2>1, <2>4, <2>5, <1>4
<1>11. list[q] = list[p] + (q - p)
  <2>1. \A k \in p..(q - 1) : block_num[list[k]] = 0
    <3>1. \A k \in p..(q - 1) : k \in p..q
      BY <1>2
    <3> QED BY <3>1, <1>10
  <2> QED BY <2>1, <1>9 DEF Inv, Linked, RunsCount, L
<1>12. q - n + 1 = p /\ n <= q
  <2>1. q \in Nat /\ p \in Nat \ {0}
    BY <1>2
  <2>2. f + n - 1 = f + (q - p)
    BY <1>1, <1>7, <1>8, <1>11
  <2> QED BY <2>1, <2>2, <1>1
<1>13. FreeRun(q, n)
  BY <1>10, <1>12 DEF FreeRun, IsFree
<1> QED BY <1>2, <1>13 DEF n

LEMMA AllocFailsIsAlloc ==
  ASSUME Inv, NEW size, AllocFails(size), NEW p
  PROVE  Pool!Alloc(size, p)
<1>1. sweep = 0 /\ UNCHANGED <<list, block_num, pid, tail, sweep, cursor>>
  BY DEF AllocFails, Running
<1>2. UNCHANGED Live
  BY <1>1 DEF Live, InUse, Heads, Area
<1>3. ASSUME NEW a \in Pool!Areas, Pool!Need(size, a.num) PROVE ~Pool!Free(a)
  <2> SUFFICES ASSUME Pool!Free(a) PROVE FALSE
    OBVIOUS
  <2>1. PICK i \in DOMAIN list : FreeRun(i, a.num)
    BY <1>1, FreeAreaIsFound
  <2>2. a.num \in 1..N /\ Need(size, a.num)
    BY <1>3, PoolDefs
  <2> QED BY <2>1, <2>2 DEF AllocFails
<1> QED BY <1>2, <1>3 DEF Pool!Alloc

LEMMA InitIsInit ==
  ASSUME Init
  PROVE  Pool!Init
<1>1. \A b \in Heads : block_num[b] = 0
  <2>1. block_num = [b \in Block |-> 0] /\ list = [i \in 1..N |-> i - 1]
    BY DEF Init
  <2>2. \A i \in 1..N : i - 1 \in Block
    BY MmAssumption DEF Block
  <2> QED BY <2>1, <2>2 DEF Heads
<1> QED BY <1>1 DEF Pool!Init, Live, InUse

LEMMA NextIsNext ==
  ASSUME Inv, [Next]_mmVars
  PROVE  [Pool!Next]_Live
<1>1. ASSUME NEW size \in Sizes, NEW p \in Pid, Alloc(size, p) PROVE Pool!Next
  <2>1. PICK n \in 1..N, i \in DOMAIN list :
          sweep = 0 /\ Need(size, n) /\ FreeRun(i, n) /\ Take(list[i] - (n - 1), n, p)
    BY <1>1 DEF Alloc, Found, Running
  <2>2. Pool!Alloc(size, p)
    BY <2>1, TakeIsAlloc
  <2> QED BY <2>2 DEF Pool!Next
<1>2. ASSUME NEW size \in Sizes, AllocFails(size) PROVE Pool!Next
  <2>1. 0 \in Pid /\ Pool!Alloc(size, 0)
    BY <1>2, MmAssumption, AllocFailsIsAlloc
  <2> QED BY <2>1 DEF Pool!Next
<1>3. ASSUME NEW i \in DOMAIN list, Release(i) PROVE Pool!Next
  BY <1>3, ReleaseIsRelease DEF Pool!Next
<1>4. ASSUME NEW p \in Pid, SweepStart(p) PROVE Pool!Next
  <2>1. p # 0
    BY <1>4 DEF SweepStart
  <2> QED BY <2>1, <1>4, SweepStartReleases DEF Pool!Next
<1>5. CASE SweepFree
  BY <1>5, SweepFreeStutters
<1>6. CASE SweepPass
  <2>1. UNCHANGED <<list, block_num, pid, sweep>>
    BY <1>6 DEF SweepPass
  <2> QED BY <2>1 DEF Live, InUse, Heads, Area
<1>7. CASE SweepEnd
  BY <1>7, SweepEndStutters
<1>8. CASE UNCHANGED mmVars
  BY <1>8 DEF mmVars, Live, InUse, Heads, Area
<1> QED BY <1>1, <1>2, <1>3, <1>4, <1>5, <1>6, <1>7, <1>8 DEF Next

\* For every pool, request and set of pids the linked headers hand out
\* disjoint areas, refuse a request only when no run of free blocks holds it,
\* and take back the areas of a task, all of them and no other, when it ends
\* (wk_alloc, stack_alloc, wk_free, stack_free, wk_free_by_pid of mm/mm.c).
THEOREM PoolIsHeap == Spec => IsHeap
<1>1. Init => Inv
  BY InitInv
<1>2. Inv /\ [Next]_mmVars => Inv'
  BY NextKeepsInv
<1>3. Init => Pool!Init
  BY InitIsInit
<1>4. Inv /\ [Next]_mmVars => [Pool!Next]_Live
  BY NextIsNext
<1> QED BY <1>1, <1>2, <1>3, <1>4, PTL DEF Spec, IsHeap, Pool!Spec

=============================================================================
