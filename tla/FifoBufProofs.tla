--------------------------- MODULE FifoBufProofs ---------------------------
(***************************************************************************)
(* The ring of lib/fifo_buf.c implements the queue of ByteFifo, for every  *)
(* size of the buffer and every length of the calls.                       *)
(*                                                                         *)
(* The kernel log, which is built on the ring, delivers what it accepts    *)
(* once and in order, for any number of tasks and any sizes of the ring,   *)
(* of log_buf and of the messages.                                         *)
(***************************************************************************)
EXTENDS KernelLog, SequenceTheorems, TLAPS

Inv == TypeOK /\ CountFitsPointers

(***************************************************************************)
(* The content is a sequence, as long as the count says.                   *)
(***************************************************************************)
LEMMA ContentFacts ==
  ASSUME Inv
  PROVE  /\ Content \in Seq(Byte) /\ Len(Content) = Used
         /\ Used \in 0..Size
         /\ \A k \in 1..Used : Content[k] = At(k)
<1>1. Used \in 0..Size
  BY FifoAssumption DEF Inv, TypeOK, Used
<1>2. \A k \in 1..Used : At(k) \in Byte
  BY <1>1, FifoAssumption DEF Inv, TypeOK, At, Addr
<1>3. Content \in [1..Used -> Byte]
  BY <1>2 DEF Content
<1> QED
  BY <1>1, <1>3 DEF Content

(***************************************************************************)
(* The pieces of a sequence, element by element.                           *)
(***************************************************************************)
LEMMA SubSeqElements ==
  ASSUME NEW S, NEW s \in Seq(S), NEW m \in Nat, NEW n \in Nat,
         1 <= m, n <= Len(s), m <= n + 1
  PROVE  SubSeq(s, m, n) = [i \in 1..(n + 1 - m) |-> s[i + m - 1]]
OBVIOUS

LEMMA SeqIsFunction ==
  ASSUME NEW S, NEW s \in Seq(S)
  PROVE  s = [i \in 1..Len(s) |-> s[i]]
OBVIOUS

(***************************************************************************)
(* A write of what fits appends it, in one piece or in two.                *)
(***************************************************************************)
LEMMA WriteAppends ==
  ASSUME Inv, NEW n \in Nat, NEW s \in [1..n -> Byte],
         WriteSplit(s) \/ WriteWhole(s)
  PROVE  Inv' /\ Content' = Content \o s /\ n <= free_size /\ moved' = s
<1>1. s \in Seq(Byte) /\ Len(s) = n /\ n \in Nat
  BY FifoAssumption
<1>2. n <= free_size /\ moved' = s /\ read' = read /\ free_size' = free_size - n
  BY <1>1 DEF WriteSplit, WriteWhole
<1>3. TypeOK'
  <2>1. CASE WriteSplit(s)
    BY <2>1, <1>1, FifoAssumption
    DEF WriteSplit, Inv, TypeOK, CountFitsPointers, Addr, Wrap, Used
  <2>2. CASE WriteWhole(s)
    BY <2>2, <1>1, FifoAssumption
    DEF WriteWhole, Inv, TypeOK, CountFitsPointers, Addr, Wrap, Used
  <2> QED BY <2>1, <2>2
<1>4. CountFitsPointers'
  <2>1. CASE WriteSplit(s)
    BY <2>1, <1>1, FifoAssumption
    DEF WriteSplit, Inv, TypeOK, CountFitsPointers, Addr, Wrap, Used
  <2>2. CASE WriteWhole(s)
    BY <2>2, <1>1, FifoAssumption
    DEF WriteWhole, Inv, TypeOK, CountFitsPointers, Addr, Wrap, Used
  <2> QED BY <2>1, <2>2
<1>5. Inv'
  BY <1>3, <1>4 DEF Inv
<1>6. Used' = Used + n
  BY <1>1, <1>2, FifoAssumption DEF Inv, TypeOK, Used
<1>7. ASSUME NEW k \in 1..(Used + n)
      PROVE  At(k)' = IF k <= Used THEN At(k) ELSE s[k - Used]
  <2> DEFINE j == IF read + k - 1 >= Size THEN read + k - 1 - Size ELSE read + k - 1
  <2>1. Used \in Nat /\ read \in Nat /\ write \in Nat /\ k \in Nat
        /\ Used + n <= Size /\ read < Size /\ write < Size
    BY <1>1, <1>2, FifoAssumption DEF Inv, TypeOK, Addr, Used
  <2>2. j \in Addr /\ At(k) = mem[j] /\ At(k)' = mem'[j]
    BY <2>1, <1>2, FifoAssumption DEF At, Addr
  <2>3. CASE WriteSplit(s)
    <3>1. mem'[j] = IF j >= write THEN s[j - write + 1]
                    ELSE IF j < n - (Size - write) THEN s[Size - write + j + 1]
                    ELSE mem[j]
      BY <2>2, <2>3, <1>1 DEF WriteSplit
    <3>2. write >= read /\ Size - write < n
      BY <2>3, <1>1 DEF WriteSplit
    <3> HIDE DEF j
    <3>3. read + Used = write \/ read + Used = write + Size
      BY DEF Inv, CountFitsPointers
    <3>4. read + Used = write
      BY <3>2, <3>3, <2>1, <1>1, FifoAssumption
    <3>5. CASE k <= Used
      <4>1. j = read + k - 1 /\ j < write /\ ~(j < n - (Size - write))
        BY <3>4, <3>5, <2>1, <1>1, FifoAssumption DEF j
      <4> QED BY <4>1, <3>1, <3>5, <2>1, <2>2
    <3>6. CASE k > Used /\ read + k - 1 < Size
      <4>1. j >= write /\ j - write + 1 = k - Used
        BY <3>4, <3>6, <2>1, <1>1, FifoAssumption DEF j
      <4> QED BY <4>1, <3>1, <3>6, <2>1, <2>2
    <3>7. CASE k > Used /\ read + k - 1 >= Size
      <4>1. ~(j >= write) /\ j < n - (Size - write) /\ Size - write + j + 1 = k - Used
        BY <3>4, <3>7, <2>1, <1>1, FifoAssumption DEF j
      <4> QED BY <4>1, <3>1, <3>7, <2>1, <2>2
    <3> QED BY <3>5, <3>6, <3>7, <2>1, FifoAssumption
  <2>4. CASE WriteWhole(s)
    <3>1. mem'[j] = IF j >= write /\ j < write + n THEN s[j - write + 1] ELSE mem[j]
      BY <2>2, <2>4, <1>1 DEF WriteWhole
    <3>2. ~(write >= read /\ Size - write < n)
      BY <2>4, <1>1 DEF WriteWhole
    <3> HIDE DEF j
    <3>3. read + Used = write \/ read + Used = write + Size
      BY DEF Inv, CountFitsPointers
    <3>4. CASE k <= Used
      <4>1. ~(j >= write /\ j < write + n)
        BY <3>2, <3>3, <3>4, <2>1, <1>1, FifoAssumption DEF j
      <4> QED BY <4>1, <3>1, <3>4, <2>1, <2>2
    <3>5. CASE k > Used
      <4>1. j >= write /\ j < write + n /\ j - write + 1 = k - Used
        BY <3>2, <3>3, <3>5, <2>1, <1>1, FifoAssumption DEF j
      <4> QED BY <4>1, <3>1, <3>5, <2>1, <2>2
    <3> QED BY <3>4, <3>5, <2>1
  <2> QED BY <2>3, <2>4
<1>8. Content \o s = [k \in 1..(Used + n) |->
                        IF k <= Used THEN Content[k] ELSE s[k - Used]]
  <2> DEFINE z == Content \o s
  <2>1. /\ z \in Seq(Byte) /\ Len(z) = Used + n
        /\ \A k \in 1..(Used + n) : z[k] = IF k <= Used THEN Content[k] ELSE s[k - Used]
    BY <1>1, ContentFacts, ConcatProperties
  <2> HIDE DEF z
  <2>2. z = [k \in 1..(Used + n) |-> z[k]]
    BY <2>1, SeqIsFunction
  <2>3. z = [k \in 1..(Used + n) |-> IF k <= Used THEN Content[k] ELSE s[k - Used]]
    BY <2>1, <2>2
  <2> QED BY <2>3 DEF z
<1>9. Content \o s = [k \in 1..(Used + n) |->
                        IF k <= Used THEN At(k) ELSE s[k - Used]]
  BY <1>8, ContentFacts, <1>1
<1>10. Content' = [k \in 1..(Used + n) |-> At(k)']
  BY <1>6 DEF Content
<1> QED BY <1>2, <1>5, <1>7, <1>9, <1>10

(***************************************************************************)
(* A read of what there is copies the oldest bytes, in one piece or two.   *)
(***************************************************************************)
LEMMA ReadCopies ==
  ASSUME Inv, NEW n \in Nat, NEW test \in BOOLEAN,
         ReadSplit(n, test) \/ ReadWhole(n, test)
  PROVE  n <= Used /\ moved' = SubSeq(Content, 1, n)
<1>1. n \in Nat /\ n <= Used
  BY FifoAssumption DEF ReadSplit, ReadWhole
<1>2. moved' = [i \in 1..n |-> At(i)]
  <2>1. CASE ReadSplit(n, test)
    <3>1. \A i \in 1..n : SplitBytes(n)[i] = At(i)
      BY <2>1, <1>1, FifoAssumption
      DEF ReadSplit, SplitBytes, At, Inv, TypeOK, Addr
    <3>2. SplitBytes(n) = [i \in 1..n |-> SplitBytes(n)[i]]
      BY DEF SplitBytes
    <3> QED BY <3>1, <3>2, <2>1 DEF ReadSplit
  <2>2. CASE ReadWhole(n, test)
    <3>1. \A i \in 1..n : mem[read + i - 1] = At(i)
      BY <2>2, <1>1, FifoAssumption
      DEF ReadWhole, At, Inv, TypeOK, Addr, Used, CountFitsPointers
    <3> QED BY <3>1, <2>2 DEF ReadWhole
  <2> QED BY <2>1, <2>2
<1>3. SubSeq(Content, 1, n) = [i \in 1..n |-> Content[i]]
  BY <1>1, ContentFacts, SubSeqElements
<1> QED BY <1>1, <1>2, <1>3, ContentFacts

(***************************************************************************)
(* After a read of n bytes what was behind them is left; a test takes      *)
(* nothing.                                                                *)
(***************************************************************************)
LEMMA ReadRemoves ==
  ASSUME Inv, NEW n \in Nat,
         ReadSplit(n, FALSE) \/ ReadWhole(n, FALSE)
  PROVE  Inv' /\ Content' = SubSeq(Content, n + 1, Len(Content))
<1>1. n \in Nat /\ n <= Used /\ free_size' = free_size + n /\ write' = write /\ mem' = mem
  BY FifoAssumption DEF ReadSplit, ReadWhole
<1>2. TypeOK' /\ CountFitsPointers'
  <2>1. CASE ReadSplit(n, FALSE)
    BY <2>1, <1>1, FifoAssumption
    DEF ReadSplit, Inv, TypeOK, CountFitsPointers, Addr, Wrap, Used
  <2>2. CASE ReadWhole(n, FALSE)
    BY <2>2, <1>1, FifoAssumption
    DEF ReadWhole, Inv, TypeOK, CountFitsPointers, Addr, Wrap, Used
  <2> QED BY <2>1, <2>2
<1>3. Used' = Used - n
  BY <1>1, FifoAssumption DEF Inv, TypeOK, Used
<1>4. \A k \in 1..(Used - n) : At(k)' = At(k + n)
  <2>1. CASE ReadSplit(n, FALSE)
    BY <2>1, <1>1, FifoAssumption
    DEF ReadSplit, Inv, TypeOK, CountFitsPointers, Addr, Wrap, Used, At
  <2>2. CASE ReadWhole(n, FALSE)
    BY <2>2, <1>1, FifoAssumption
    DEF ReadWhole, Inv, TypeOK, CountFitsPointers, Addr, Wrap, Used, At
  <2> QED BY <2>1, <2>2
<1>5. SubSeq(Content, n + 1, Used) = [k \in 1..(Used - n) |-> Content[k + n]]
  BY <1>1, ContentFacts, SubSeqElements
<1>6. SubSeq(Content, n + 1, Used) = [k \in 1..(Used - n) |-> At(k + n)]
  BY <1>1, <1>5, ContentFacts
<1>7. Content' = [k \in 1..(Used - n) |-> At(k)']
  BY <1>3 DEF Content
<1> QED BY <1>2, <1>4, <1>6, <1>7, ContentFacts DEF Inv

LEMMA TestKeeps ==
  ASSUME Inv, NEW n \in Nat,
         ReadSplit(n, TRUE) \/ ReadWhole(n, TRUE)
  PROVE  Inv' /\ Content' = Content
<1>1. UNCHANGED <<mem, read, write, free_size>>
  BY DEF ReadSplit, ReadWhole
<1> QED BY <1>1 DEF Inv, TypeOK, CountFitsPointers, Content, Used, At, Addr

LEMMA RefusedKeeps ==
  ASSUME Inv, NEW n, NEW have, Refused(n, have)
  PROVE  Inv' /\ Content' = Content /\ n > have /\ moved' = <<>>
BY DEF Refused, Inv, TypeOK, CountFitsPointers, Content, Used, At, Addr

-----------------------------------------------------------------------------
LEMMA InitHolds ==
  ASSUME Init
  PROVE  Inv /\ Fifo!Init
<1>1. Inv
  BY FifoAssumption DEF Init, Inv, TypeOK, CountFitsPointers, Addr, Used
<1>2. Used = 0
  BY FifoAssumption DEF Init, Used
<1>3. Content = <<>>
  BY <1>1, <1>2, ContentFacts
<1> QED BY <1>1, <1>3 DEF Init, Fifo!Init

LEMMA StepRefines ==
  ASSUME Inv, [Next]_fifoVars
  PROVE  Inv' /\ [Fifo!Next]_(Fifo!qVars)
<1>1. CASE UNCHANGED fifoVars
  BY <1>1 DEF fifoVars, Inv, TypeOK, CountFitsPointers, Content, Used, At, Addr, Fifo!qVars
<1>2. ASSUME NEW n \in 0..MaxCall, NEW s \in [1..n -> Byte], write_fifo_buf_size(s)
      PROVE  Inv' /\ Fifo!Next
  <2>1. s \in Seq(Byte) /\ Len(s) = n /\ n \in Nat /\ free_size \in Nat
    BY FifoAssumption DEF Inv, TypeOK
  <2>2. Inv' /\ Fifo!Write(s)
    <3>1. CASE WriteSplit(s) \/ WriteWhole(s)
      BY <3>1, <2>1, WriteAppends, ContentFacts, FifoAssumption
      DEF Fifo!Write, Inv, TypeOK, Used
    <3>2. CASE Refused(Len(s), free_size)
      <4>1. Inv' /\ Content' = Content /\ Len(s) > free_size /\ moved' = <<>>
        BY <3>2, RefusedKeeps
      <4>2. Len(Content) + Len(s) > Size
        BY <4>1, <2>1, ContentFacts, FifoAssumption DEF Inv, TypeOK, Used
      <4> QED BY <4>1, <4>2 DEF Fifo!Write
    <3> QED BY <3>1, <3>2, <1>2 DEF write_fifo_buf_size
  <2> QED BY <2>2 DEF Fifo!Next
<1>3. ASSUME NEW n \in 0..MaxCall, read_fifo_buf_size(n, FALSE)
      PROVE  Inv' /\ Fifo!Next
  <2>0. n \in Nat /\ Len(Content) = Used
    BY ContentFacts, FifoAssumption
  <2>1. Inv' /\ Fifo!Read(n)
    <3>1. CASE ReadSplit(n, FALSE) \/ ReadWhole(n, FALSE)
      BY <3>1, <2>0, ReadCopies, ReadRemoves DEF Fifo!Read
    <3>2. CASE Refused(n, Used)
      <4>1. Inv' /\ Content' = Content /\ n > Used /\ moved' = <<>>
        BY <3>2, RefusedKeeps
      <4> QED BY <4>1, ContentFacts DEF Fifo!Read
    <3> QED BY <3>1, <3>2, <1>3 DEF read_fifo_buf_size
  <2> QED BY <2>1 DEF Fifo!Next
<1>4. ASSUME NEW n \in 0..MaxCall, read_fifo_buf_size(n, TRUE)
      PROVE  Inv' /\ Fifo!Next
  <2>0. n \in Nat /\ Len(Content) = Used
    BY ContentFacts, FifoAssumption
  <2>1. Inv' /\ Fifo!Peek(n)
    <3>1. CASE ReadSplit(n, TRUE) \/ ReadWhole(n, TRUE)
      <4>1. n <= Used /\ moved' = SubSeq(Content, 1, n) /\ Inv' /\ Content' = Content
        BY <3>1, <2>0, ReadCopies, TestKeeps
      <4> QED BY <4>1, <2>0 DEF Fifo!Peek
    <3>2. CASE Refused(n, Used)
      <4>1. Inv' /\ Content' = Content /\ n > Used /\ moved' = <<>>
        BY <3>2, RefusedKeeps
      <4> QED BY <4>1, ContentFacts DEF Fifo!Peek
    <3> QED BY <3>1, <3>2, <1>4 DEF read_fifo_buf_size
  <2> QED BY <2>1 DEF Fifo!Next
<1> QED BY <1>1, <1>2, <1>3, <1>4 DEF Next

(***************************************************************************)
(* The pointers stay inside the memory and the count fits them, whatever   *)
(* calls are made (lib/fifo_buf.c:21, 81).                                 *)
(***************************************************************************)
THEOREM RingConsistent == Spec => [](TypeOK /\ CountFitsPointers)
<1>1. Init => Inv
  BY InitHolds
<1>2. Inv /\ [Next]_fifoVars => Inv'
  BY StepRefines
<1>3. Inv => TypeOK /\ CountFitsPointers
  BY DEF Inv
<1> QED BY <1>1, <1>2, <1>3, PTL DEF Spec

(***************************************************************************)
(* The ring with its two-piece copies is a first-in first-out queue of     *)
(* Size bytes: every call returns what the queue returns.                  *)
(***************************************************************************)
THEOREM RingIsQueue == Spec => IsByteFifo
<1>1. Init => Inv /\ Fifo!Init
  BY InitHolds
<1>2. Inv /\ [Next]_fifoVars => Inv' /\ [Fifo!Next]_(Fifo!qVars)
  BY StepRefines
<1> QED BY <1>1, <1>2, PTL DEF Spec, IsByteFifo, Fifo!Spec

-----------------------------------------------------------------------------
(***************************************************************************)
(* The kernel log.  What the ring has taken is the sequence Ids(accepted); *)
(* a message is the next part of it.                                       *)
(***************************************************************************)
Ids(n) == [k \in 1..n |-> k - 1]

LEMMA MessageContinues ==
  ASSUME NEW n \in Nat, accepted \in Nat, accepted + n <= MaxBytes
  PROVE  /\ Message(n) \in [1..n -> Byte]
         /\ Ids(accepted + n) = Ids(accepted) \o Message(n)
<1>1. \A k \in 1..n : accepted + k - 1 \in Byte
  <2>1. \A k \in 1..n : accepted + k - 1 \in 0..MaxBytes
    BY LogAssumption
  <2> QED BY <2>1, LogAssumption
<1>2. Message(n) \in [1..n -> Byte]
  BY <1>1 DEF Message
<1>3. Message(n) \in Seq(Nat) /\ Len(Message(n)) = n
  <2>1. \A k \in 1..n : accepted + k - 1 \in Nat
    OBVIOUS
  <2> QED BY <2>1 DEF Message
<1>4. Ids(accepted) \in Seq(Nat) /\ Len(Ids(accepted)) = accepted
  BY DEF Ids
<1>5. Ids(accepted + n) \in Seq(Nat) /\ Len(Ids(accepted + n)) = accepted + n
  BY DEF Ids
<1>6. \A k \in 1..(accepted + n) :
        Ids(accepted + n)[k] = (Ids(accepted) \o Message(n))[k]
  <2> DEFINE a == Ids(accepted)
             m == Message(n)
  <2>1. a \in Seq(Nat) /\ m \in Seq(Nat) /\ Len(a) = accepted /\ Len(m) = n
    BY <1>3, <1>4
  <2> HIDE DEF a, m
  <2>2. \A k \in 1..(Len(a) + Len(m)) :
          (a \o m)[k] = IF k <= Len(a) THEN a[k] ELSE m[k - Len(a)]
    BY <2>1, ConcatProperties
  <2>3. \A k \in 1..(accepted + n) :
          (Ids(accepted) \o Message(n))[k]
            = IF k <= accepted THEN Ids(accepted)[k] ELSE Message(n)[k - accepted]
    BY <2>1, <2>2 DEF a, m
  <2> QED BY <2>3 DEF Ids, Message
<1>7. /\ Ids(accepted) \o Message(n) \in Seq(Nat)
      /\ Len(Ids(accepted) \o Message(n)) = accepted + n
  BY <1>3, <1>4, ConcatProperties
<1>8. Ids(accepted + n) = Ids(accepted) \o Message(n)
  BY <1>5, <1>6, <1>7, SeqEqual
<1> QED BY <1>2, <1>8

(***************************************************************************)
(* The ring takes a message whole or not at all.                           *)
(***************************************************************************)
LEMMA PutTakes ==
  ASSUME Inv, NEW n \in 1..MaxMsg, accepted \in 0..MaxBytes, Put(n)
  PROVE  /\ Inv' /\ accepted' \in 0..MaxBytes
         /\ \E m \in Seq(Byte) : /\ Content' = Content \o m
                                 /\ Ids(accepted') = Ids(accepted) \o m
<1>1. n \in Nat /\ accepted \in Nat /\ accepted + n <= MaxBytes /\ MaxBytes \in Nat
  BY LogAssumption DEF Put
<1>2. /\ Message(n) \in [1..n -> Byte] /\ Message(n) \in Seq(Byte) /\ Len(Message(n)) = n
      /\ Ids(accepted + n) = Ids(accepted) \o Message(n)
  BY <1>1, MessageContinues
<1>3. CASE WriteSplit(Message(n)) \/ WriteWhole(Message(n))
  <2>1. Inv' /\ Content' = Content \o Message(n) /\ moved' = Message(n)
    BY <1>1, <1>2, <1>3, WriteAppends
  <2>2. accepted' = accepted + n
    BY <2>1, <1>2 DEF Put
  <2>3. accepted' \in 0..MaxBytes
    BY <1>1, <2>2
  <2>4. Ids(accepted') = Ids(accepted) \o Message(n)
    BY <1>2, <2>2
  <2> QED BY <1>2, <2>1, <2>3, <2>4, Zenon
<1>4. CASE Refused(Len(Message(n)), free_size)
  <2>1. Inv' /\ Content' = Content /\ moved' = <<>>
    BY <1>4, RefusedKeeps
  <2>2. accepted' = accepted
    BY <2>1, <1>1 DEF Put
  <2>3. Content \in Seq(Byte) /\ Ids(accepted) \in Seq(Nat)
    BY <1>1, ContentFacts DEF Ids
  <2>4. Content \o <<>> = Content /\ Ids(accepted) \o <<>> = Ids(accepted)
    BY <2>3, ConcatEmptySeq
  <2>5. <<>> \in Seq(Byte)
    OBVIOUS
  <2> QED BY <1>1, <2>1, <2>2, <2>4, <2>5
<1> QED BY <1>3, <1>4 DEF Put, write_fifo_buf_size

(***************************************************************************)
(* read_log takes the oldest bytes out of the ring, and no more of them    *)
(* than log_buf holds.                                                     *)
(***************************************************************************)
LEMMA AskFits == ASSUME Inv
                 PROVE  Ask \in 0..DmaSize
<1>1. Used \in Nat /\ DmaSize \in Nat
  BY ContentFacts, FifoAssumption, LogAssumption
<1>2. \E x \in {Used, DmaSize} : \A y \in {Used, DmaSize} : x <= y
  BY <1>1
<1>3. Ask \in {Used, DmaSize} /\ \A y \in {Used, DmaSize} : Ask <= y
  BY <1>2 DEF Ask, Min
<1> QED BY <1>1, <1>3

LEMMA LogReads ==
  ASSUME Inv, read_log
  PROVE  /\ Inv' /\ moved' \in Seq(Byte) /\ Len(moved') \in 0..DmaSize
         /\ Content = moved' \o Content'
<1> DEFINE n == Ask
<1>1. n \in 0..DmaSize /\ n \in Nat
  BY AskFits, LogAssumption
<1> HIDE DEF n
<1>2. ReadSplit(n, FALSE) \/ ReadWhole(n, FALSE)
  BY DEF read_log, n
<1>3. n <= Used /\ moved' = SubSeq(Content, 1, n)
  BY <1>1, <1>2, ReadCopies
<1>4. Inv' /\ Content' = SubSeq(Content, n + 1, Len(Content))
  BY <1>1, <1>2, ReadRemoves
<1> DEFINE c == Content
<1>5. c \in Seq(Byte) /\ Len(c) = Used /\ Used \in Nat
  BY ContentFacts, FifoAssumption
<1>6. moved' = SubSeq(c, 1, n) /\ Content' = SubSeq(c, n + 1, Len(c)) /\ n <= Len(c)
  BY <1>3, <1>4, <1>5
<1> HIDE DEF c
<1>7. moved' \in Seq(Byte) /\ Len(moved') = n /\ \A i \in 1..n : moved'[i] = c[i]
  BY <1>1, <1>5, <1>6
<1>8. /\ Content' \in Seq(Byte) /\ Len(Content') = Len(c) - n
      /\ \A i \in 1..(Len(c) - n) : Content'[i] = c[i + n]
  BY <1>1, <1>5, <1>6
<1>9. /\ moved' \o Content' \in Seq(Byte) /\ Len(moved' \o Content') = Len(c)
      /\ \A i \in 1..Len(c) : (moved' \o Content')[i]
           = IF i <= n THEN moved'[i] ELSE Content'[i - n]
  <2>1. Len(moved') + Len(Content') = Len(c)
    BY <1>1, <1>5, <1>7, <1>8
  <2> QED BY <2>1, <1>7, <1>8, ConcatProperties
<1>10. \A i \in 1..Len(c) : (moved' \o Content')[i] = c[i]
  <2> SUFFICES ASSUME NEW i \in 1..Len(c) PROVE (moved' \o Content')[i] = c[i]
    OBVIOUS
  <2>1. CASE i <= n
    BY <2>1, <1>1, <1>5, <1>7, <1>9
  <2>2. CASE ~(i <= n)
    <3>1. i - n \in 1..(Len(c) - n) /\ (i - n) + n = i
      BY <2>2, <1>1, <1>5
    <3> QED BY <3>1, <2>2, <1>8, <1>9
  <2> QED BY <2>1, <2>2
<1>11. c = moved' \o Content'
  BY <1>5, <1>9, <1>10, SeqEqual
<1> QED BY <1>1, <1>4, <1>7, <1>11 DEF c

(***************************************************************************)
(* Fill puts what was read at the start of log_buf.                        *)
(***************************************************************************)
LEMMA FillHolds ==
  ASSUME moved' \in Seq(Byte), Len(moved') \in 0..DmaSize,
         log_buf \in [1..DmaSize -> Byte], Fill
  PROVE  /\ log_buf' \in [1..DmaSize -> Byte]
         /\ SubSeq(log_buf', 1, Len(moved')) = moved'
<1>1. \A k \in 1..DmaSize : (IF k <= Len(moved') THEN moved'[k] ELSE log_buf[k]) \in Byte
  BY LogAssumption
<1>2. log_buf' \in [1..DmaSize -> Byte]
  BY <1>1 DEF Fill
<1>3. log_buf' \in Seq(Byte) /\ Len(log_buf') = DmaSize
  BY <1>2, LogAssumption
<1> DEFINE n == Len(moved')
           z == SubSeq(log_buf', 1, n)
<1>4. z \in Seq(Byte) /\ Len(z) = n /\ \A i \in 1..n : z[i] = log_buf'[i]
  BY <1>3, LogAssumption
<1>5. \A i \in 1..n : log_buf'[i] = moved'[i]
  BY LogAssumption DEF Fill
<1> QED BY <1>2, <1>4, <1>5, SeqEqual

-----------------------------------------------------------------------------
(***************************************************************************)
(* The ways through the port exclude one another.  While nobody has raced, *)
(* at most one task holds log_buf; dma_transport is set exactly when a     *)
(* task is about to start DMA or the DMA stream is not at rest; the tasks  *)
(* that poll are those of the boot code.                                   *)
(***************************************************************************)
Busy == {"read", "mark", "start", "poll", "usart"}
Ready == {"mark", "start", "usart"}

AtRest == dma.left = 0 /\ ~tcif /\ dma_irq = None

OneCaller ==
  \A t, u \in Writer : stage[t] \in Busy /\ stage[u] \in Busy => t = u

FlagFits ==
  /\ ~dma_transport => AtRest /\ \A t \in Writer : stage[t] # "start"
  /\ dma_transport =>
       kernel_running /\ \A t \in Writer : stage[t] \notin {"read", "mark"}

OneOwner ==
  /\ \A t \in Writer : stage[t] = "start" => AtRest
  /\ dma.left > 0 => ~tcif /\ dma_irq = None
  /\ tcif => dma_irq = None

Boot ==
  /\ kernel_running => \A t \in Writer : stage[t] \notin {"poll", "usart"}
  /\ ~kernel_running =>
       /\ \A t \in Writer : stage[t] \notin {"read", "mark", "start"}
       /\ \A t, u \in Writer : stage[t] # "idle" /\ stage[u] # "idle" => t = u

Roles == OneCaller /\ FlagFits /\ OneOwner /\ Boot

InOrder == out \o Pending \o Content = Ids(accepted)

LogTyped ==
  /\ LogTypeOK /\ CountFitsPointers
  /\ out \in Seq(Byte) /\ dma.next + dma.left - 1 <= DmaSize

LogInv == LogTyped /\ (raced \/ (Roles /\ InOrder))

-----------------------------------------------------------------------------
(***************************************************************************)
(* What Pending is, case by case.                                          *)
(***************************************************************************)
Quiet == ~(dma.left > 0) /\ dma_irq \notin 1..DmaSize

PendingRule ==
  /\ dma.left > 0 =>
       Pending = SubSeq(log_buf, dma.next, dma.next + dma.left - 1)
  /\ ~(dma.left > 0) /\ dma_irq \in 1..DmaSize =>
       Pending = SubSeq(log_buf, 1, dma_irq)
  /\ \A t \in Writer : Quiet /\ stage[t] \in Ready =>
       Pending = SubSeq(log_buf, 1, len[t])
  /\ Quiet /\ (\A t \in Writer : stage[t] \notin Ready) => Pending = <<>>
  /\ ~Sending => Pending = <<>> /\ \A t \in Writer : stage[t] \notin Ready

LEMMA PendingFacts == OneCaller => PendingRule
<1> SUFFICES ASSUME OneCaller PROVE PendingRule
  OBVIOUS
<1>1. dma.left > 0 =>
        Pending = SubSeq(log_buf, dma.next, dma.next + dma.left - 1)
  BY DEF Pending
<1>2. ~(dma.left > 0) /\ dma_irq \in 1..DmaSize => Pending = SubSeq(log_buf, 1, dma_irq)
  BY DEF Pending
<1>3. ASSUME NEW t \in Writer, Quiet, stage[t] \in Ready
      PROVE  Pending = SubSeq(log_buf, 1, len[t])
  <2> DEFINE c == CHOOSE u \in Writer : stage[u] \in {"mark", "start", "usart"}
  <2>1. c \in Writer /\ stage[c] \in Ready
    BY <1>3 DEF Ready
  <2>2. c = t
    <3> HIDE DEF c
    <3> QED BY <2>1, <1>3 DEF OneCaller, Ready, Busy
  <2>3. Sending
    BY <1>3 DEF Sending, Ready
  <2>4. Pending = SubSeq(log_buf, 1, len[c])
    BY <2>3, <1>3 DEF Pending, Quiet
  <2> QED BY <2>2, <2>4
<1>4. Quiet /\ (\A t \in Writer : stage[t] \notin Ready) => ~Sending
  BY DEF Quiet, Sending, Ready
<1>5. ~Sending => Pending = <<>> /\ \A t \in Writer : stage[t] \notin Ready
  BY DEF Pending, Sending, Ready
<1> QED BY <1>1, <1>2, <1>3, <1>4, <1>5 DEF PendingRule

(***************************************************************************)
(* While somebody reads into log_buf, or the stream is through with it,    *)
(* nothing is pending.                                                     *)
(***************************************************************************)
LEMMA ReaderHasNoPending ==
  ASSUME LogTyped, Roles, NEW t \in Writer, stage[t] \in {"read", "poll"}
  PROVE  /\ Pending = <<>> /\ AtRest
         /\ \A s \in Writer : stage[s] \notin Ready
<1>1. ~dma_transport
  BY DEF Roles, FlagFits, Boot
<1>2. AtRest
  BY <1>1 DEF Roles, FlagFits
<1>3. \A s \in Writer : stage[s] \notin Ready
  BY DEF Roles, OneCaller, Busy, Ready
<1>4. Quiet
  BY <1>2, LogAssumption DEF AtRest, Quiet, None
<1> QED BY <1>2, <1>3, <1>4, PendingFacts DEF PendingRule, Roles

LEMMA HandlerHasNoPending ==
  ASSUME LogTyped, Roles, tcif \/ dma_irq = 0
  PROVE  /\ Pending = <<>> /\ dma.left = 0 /\ dma_irq \notin 1..DmaSize
         /\ \A s \in Writer : stage[s] \notin Ready
<1>1. ~AtRest
  BY LogAssumption DEF AtRest, None
<1>2. dma_transport /\ kernel_running
  BY <1>1 DEF Roles, FlagFits
<1>3. \A s \in Writer : stage[s] \notin Ready
  BY <1>1, <1>2 DEF Roles, FlagFits, OneOwner, Boot, Ready
<1>4. dma.left \in Nat
  BY LogAssumption DEF LogTyped, LogTypeOK
<1>5. dma.left = 0 /\ dma_irq \notin 1..DmaSize
  BY <1>4, LogAssumption DEF Roles, OneOwner, None
<1>6. Quiet
  BY <1>5 DEF Quiet
<1> QED BY <1>3, <1>5, <1>6, PendingFacts DEF PendingRule, Roles

(***************************************************************************)
(* Who holds log_buf, step by step, as long as nobody has raced.           *)
(***************************************************************************)
LEMMA RolesStart == LogInit => Roles
BY LogAssumption DEF LogInit, Roles, OneCaller, FlagFits, OneOwner, Boot, AtRest, Busy

LEMMA RolesStep ==
  ASSUME LogTyped, Roles, [LogNext]_logVars, ~raced'
  PROVE  Roles'
<1> USE DEF Roles, OneCaller, FlagFits, OneOwner, Boot, AtRest, Busy, GoTo
<1>0. stage \in [Writer -> Stage]
  BY DEF LogTyped, LogTypeOK
<1>1. ASSUME NEW n \in 1..MaxMsg, NEW t \in Writer, WriteLog(t, n)
      PROVE  Roles'
  BY <1>0, <1>1 DEF WriteLog, outVars, irqVars, Alone
<1>2. ASSUME NEW n \in 1..MaxMsg, HandlerPut(n)
      PROVE  Roles'
  BY <1>2 DEF HandlerPut, outVars
<1>3. ASSUME NEW t \in Writer, SendToConsole(t)
      PROVE  Roles'
  <2>1. UNCHANGED <<dma, tcif, dma_irq, kernel_running, dma_transport>> /\ stage[t] = "send"
    BY <1>3 DEF SendToConsole, outVars, irqVars
  <2>2. CASE ~kernel_running /\ GoTo(t, "poll")
    BY <1>0, <2>1, <2>2
  <2>3. CASE kernel_running /\ dma_transport /\ GoTo(t, "idle")
    BY <1>0, <2>1, <2>3
  <2>4. CASE /\ kernel_running /\ ~dma_transport /\ GoTo(t, "read")
             /\ raced' = (raced \/ Others(t) # {})
    <3>1. Others(t) = {}
      BY <2>4, Zenon
    <3>2. \A u \in Writer \ {t} : stage[u] \notin Busy
      BY <3>1 DEF Others
    <3> QED BY <1>0, <2>1, <2>4, <3>2
  <2> QED BY <1>3, <2>2, <2>3, <2>4 DEF SendToConsole
<1>4. ASSUME NEW t \in Writer, ReadLog(t)
      PROVE  Roles'
  BY <1>0, <1>4 DEF ReadLog, irqVars
<1>5. ASSUME NEW t \in Writer, MarkTransport(t)
      PROVE  Roles'
  BY <1>0, <1>5 DEF MarkTransport, outVars, irqVars
<1>6. ASSUME NEW t \in Writer, StartDma(t)
      PROVE  Roles'
  BY <1>0, <1>6 DEF StartDma, irqVars
<1>7. ASSUME NEW t \in Writer, UsartSend(t)
      PROVE  Roles'
  BY <1>0, <1>7 DEF UsartSend, irqVars
<1>8. CASE KernelRuns
  BY <1>8 DEF KernelRuns, outVars, irqVars
<1>9. CASE DmaByte
  BY <1>9, LogAssumption DEF DmaByte, irqVars, LogTyped, LogTypeOK
<1>10. CASE DmaIrq
  BY <1>10, LogAssumption DEF DmaIrq, LogTyped, LogTypeOK
<1>11. CASE DmaIrqEnd
  BY <1>11, LogAssumption DEF DmaIrqEnd, LogTyped, LogTypeOK
<1>12. CASE HandlerSend
  BY <1>12 DEF HandlerSend
<1>13. CASE UNCHANGED logVars
  BY <1>13 DEF logVars, outVars, irqVars
<1> QED BY <1>1, <1>2, <1>3, <1>4, <1>5, <1>6, <1>7, <1>8, <1>9, <1>10, <1>11, <1>12, <1>13
        DEF LogNext, WriterGoesOn

-----------------------------------------------------------------------------
(***************************************************************************)
(* The types, whoever races.                                               *)
(***************************************************************************)
LEMMA LogStart == LogInit => LogInv
<1> SUFFICES ASSUME LogInit PROVE LogInv
  OBVIOUS
<1>1. 0 \in Byte /\ DmaSize \in Nat \ {0} /\ MaxBytes \in Nat
  BY LogAssumption
<1>2. Inv /\ Used = 0
  BY <1>1, FifoAssumption DEF LogInit, Inv, TypeOK, CountFitsPointers, Addr, Used
<1>3. LogTyped
  <2>1. log_buf \in [1..DmaSize -> Byte] /\ out \in Seq(Byte)
    BY <1>1 DEF LogInit
  <2>2. /\ dma \in [next : 1..(DmaSize + 1), left : 0..DmaSize]
        /\ dma.next + dma.left - 1 <= DmaSize
        /\ dma_irq \in 0..None /\ accepted \in 0..MaxBytes
    BY <1>1 DEF LogInit, None
  <2>3. stage \in [Writer -> Stage] /\ len \in [Writer -> 0..DmaSize]
    BY <1>1 DEF LogInit, Stage
  <2> QED BY <1>2, <2>1, <2>2, <2>3 DEF LogInit, LogTyped, LogTypeOK, Inv
<1>4. Roles
  BY RolesStart
<1>5. Content = <<>>
  BY <1>2, ContentFacts
<1>6. Pending = <<>>
  BY <1>1 DEF LogInit, Pending, Sending, None
<1>7. Ids(accepted) = <<>> /\ out = <<>>
  BY DEF LogInit, Ids
<1>8. <<>> \o <<>> = <<>>
  OBVIOUS
<1>9. InOrder
  BY <1>5, <1>6, <1>7, <1>8 DEF InOrder
<1> QED BY <1>3, <1>4, <1>9 DEF LogInv

LEMMA TypedStep ==
  ASSUME LogTyped, [LogNext]_logVars
  PROVE  LogTyped'
<1>0. /\ Inv /\ DmaSize \in Nat /\ None \notin 0..DmaSize /\ 0..DmaSize \subseteq 0..None
      /\ None \in Nat
  BY LogAssumption DEF LogTyped, LogTypeOK, Inv, None
<1>1. ASSUME UNCHANGED fifoVars
      PROVE  TypeOK' /\ CountFitsPointers'
  BY <1>0, <1>1 DEF Inv, fifoVars, TypeOK, CountFitsPointers, Used, Addr
<1>2. ASSUME NEW n \in 1..MaxMsg, Put(n)
      PROVE  TypeOK' /\ CountFitsPointers' /\ accepted' \in 0..MaxBytes
  <2>1. accepted \in 0..MaxBytes
    BY DEF LogTyped, LogTypeOK
  <2> QED BY <1>0, <1>2, <2>1, PutTakes DEF Inv
<1>3. ASSUME read_log, Fill
      PROVE  /\ TypeOK' /\ CountFitsPointers'
             /\ moved' \in Seq(Byte) /\ Len(moved') \in 0..DmaSize
             /\ log_buf' \in [1..DmaSize -> Byte]
  <2>1. Inv' /\ moved' \in Seq(Byte) /\ Len(moved') \in 0..DmaSize
    BY <1>0, <1>3, LogReads
  <2>2. log_buf' \in [1..DmaSize -> Byte]
    BY <1>3, <2>1, FillHolds DEF LogTyped, LogTypeOK
  <2> QED BY <2>1, <2>2 DEF Inv
<1> USE DEF LogTyped, LogTypeOK
<1>4. ASSUME NEW n \in 1..MaxMsg, NEW t \in Writer, WriteLog(t, n)
      PROVE  LogTyped'
  BY <1>2, <1>4 DEF WriteLog, outVars, irqVars, GoTo, Stage
<1>5. ASSUME NEW n \in 1..MaxMsg, HandlerPut(n)
      PROVE  LogTyped'
  BY <1>2, <1>5 DEF HandlerPut, outVars
<1>6. ASSUME NEW t \in Writer, SendToConsole(t)
      PROVE  LogTyped'
  <2>1. UNCHANGED <<fifoVars, outVars, irqVars, kernel_running, dma_transport, len, accepted>>
    BY <1>6 DEF SendToConsole
  <2>2. stage' \in [Writer -> Stage]
    BY <1>6 DEF SendToConsole, GoTo, Stage
  <2>3. raced' \in BOOLEAN
    <3>1. raced' = raced \/ raced' = (raced \/ Others(t) # {})
      BY <1>6 DEF SendToConsole
    <3> QED BY <3>1, Zenon
  <2> QED BY <1>1, <2>1, <2>2, <2>3 DEF outVars, irqVars
<1>7. ASSUME NEW t \in Writer, ReadLog(t)
      PROVE  LogTyped'
  <2>1. /\ read_log /\ Fill /\ len' = [len EXCEPT ![t] = Len(moved')]
        /\ UNCHANGED <<dma, tcif, out, irqVars, kernel_running, dma_transport, accepted, raced>>
    BY <1>7 DEF ReadLog
  <2>2. stage' \in [Writer -> Stage]
    BY <1>7 DEF ReadLog, GoTo, Stage
  <2> QED BY <1>3, <2>1, <2>2 DEF irqVars
<1>8. ASSUME NEW t \in Writer, MarkTransport(t)
      PROVE  LogTyped'
  BY <1>1, <1>8 DEF MarkTransport, outVars, irqVars, GoTo, Stage
<1>9. ASSUME NEW t \in Writer, StartDma(t)
      PROVE  LogTyped'
  BY <1>0, <1>1, <1>9 DEF StartDma, irqVars, GoTo, Stage
<1>10. ASSUME NEW t \in Writer, UsartSend(t)
       PROVE  LogTyped'
  <2>1. SubSeq(log_buf, 1, len[t]) \in Seq(Byte)
    BY <1>0
  <2>2. out' \in Seq(Byte)
    BY <1>10, <2>1, ConcatProperties DEF UsartSend
  <2> QED BY <1>1, <1>10, <2>2 DEF UsartSend, irqVars, GoTo, Stage
<1>11. CASE KernelRuns
  BY <1>1, <1>11 DEF KernelRuns, outVars, irqVars
<1>12. CASE DmaByte
  <2>1. dma.next \in 1..DmaSize /\ dma.left \in 1..DmaSize /\ log_buf[dma.next] \in Byte
    BY <1>0, <1>12 DEF DmaByte
  <2>2. out' \in Seq(Byte)
    BY <1>12, <2>1 DEF DmaByte
  <2>3. /\ dma' \in [next : 1..(DmaSize + 1), left : 0..DmaSize]
        /\ dma'.next + dma'.left - 1 <= DmaSize
    BY <1>0, <1>12, <2>1 DEF DmaByte
  <2>4. tcif' \in BOOLEAN
    BY <1>12 DEF DmaByte
  <2> QED BY <1>1, <1>12, <2>2, <2>3, <2>4 DEF DmaByte, irqVars
<1>13. CASE DmaIrq
  BY <1>0, <1>3, <1>13 DEF DmaIrq
<1>14. CASE DmaIrqEnd
  <2>1. dma_irq \in 0..DmaSize
    BY <1>14, LogAssumption DEF DmaIrqEnd, None
  <2>2. dma' = dma \/ dma' = [next |-> 1, left |-> dma_irq]
    BY <1>14 DEF DmaIrqEnd
  <2>3. dma' \in [next : 1..(DmaSize + 1), left : 0..DmaSize]
        /\ dma'.next + dma'.left - 1 <= DmaSize
    BY <1>0, <2>1, <2>2
  <2>4. /\ dma_irq' = None /\ dma_transport' \in BOOLEAN
        /\ UNCHANGED <<fifoVars, log_buf, tcif, out, handler, kernel_running, stage, len,
                      accepted, raced>>
    BY <1>14 DEF DmaIrqEnd
  <2>5. dma_irq' \in 0..None
    BY <1>0, <2>4
  <2> QED BY <1>1, <2>3, <2>4, <2>5
<1>15. CASE HandlerSend
  <2>1. out' \in Seq(Byte)
    BY <1>3, <1>15, ConcatProperties DEF HandlerSend
  <2>2. raced' \in BOOLEAN
    BY <1>15, Zenon DEF HandlerSend
  <2> QED BY <1>3, <1>15, <2>1, <2>2 DEF HandlerSend
<1>16. CASE UNCHANGED logVars
  BY <1>1, <1>16 DEF logVars, outVars, irqVars
<1> QED BY <1>4, <1>5, <1>6, <1>7, <1>8, <1>9, <1>10, <1>11, <1>12, <1>13, <1>14, <1>15, <1>16
        DEF LogNext, WriterGoesOn

-----------------------------------------------------------------------------
(***************************************************************************)
(* Sequences of three parts, and what the steps do to them.                *)
(***************************************************************************)
LEMMA TwoWays ==
  ASSUME NEW S, NEW a \in Seq(S), NEW b \in Seq(S), NEW c \in Seq(S)
  PROVE  a \o (b \o c) = (a \o b) \o c
OBVIOUS

LEMMA ThreeParts ==
  ASSUME NEW S, NEW a \in Seq(S), NEW b \in Seq(S), NEW c \in Seq(S)
  PROVE  /\ (a \o <<>>) \o (b \o c) = (a \o b) \o c
         /\ ((a \o b) \o <<>>) \o c = (a \o b) \o c
<1>1. a \o <<>> = a
  BY ConcatEmptySeq
<1>2. a \o b \in Seq(S)
  BY ConcatProperties
<1>3. (a \o b) \o <<>> = a \o b
  BY <1>2, ConcatEmptySeq
<1> QED BY <1>1, <1>3, TwoWays

(***************************************************************************)
(* Pending is a part of log_buf.                                           *)
(***************************************************************************)
LEMMA PartOfBuf ==
  ASSUME log_buf \in [1..DmaSize -> Byte], DmaSize \in Nat,
         NEW m \in 1..(DmaSize + 1), NEW n \in Int, n <= DmaSize
  PROVE  SubSeq(log_buf, m, n) \in Seq(Byte)
<1>1. \A i \in m..n : log_buf[i] \in Byte
  OBVIOUS
<1> QED BY <1>1, SubSeqProperties

LEMMA PendingTyped ==
  ASSUME LogTyped
  PROVE  Pending \in Seq(Byte)
<1>1. /\ log_buf \in [1..DmaSize -> Byte] /\ DmaSize \in Nat
      /\ dma.next \in 1..(DmaSize + 1) /\ dma.left \in Nat
      /\ dma.next + dma.left - 1 <= DmaSize
      /\ len \in [Writer -> 0..DmaSize]
  BY LogAssumption DEF LogTyped, LogTypeOK
<1> DEFINE c == CHOOSE u \in Writer : stage[u] \in {"mark", "start", "usart"}
<1>2. CASE dma.left > 0
  BY <1>1, <1>2, PartOfBuf DEF Pending
<1>3. CASE ~(dma.left > 0) /\ dma_irq \in 1..DmaSize
  <2>1. Pending = SubSeq(log_buf, 1, dma_irq)
    BY <1>3 DEF Pending
  <2> QED BY <1>1, <1>3, <2>1, PartOfBuf
<1>4. CASE Quiet /\ Sending
  <2>1. c \in Writer
    BY <1>4 DEF Sending, Quiet
  <2>2. Pending = SubSeq(log_buf, 1, len[c])
    BY <1>4 DEF Pending, Quiet
  <2>3. len[c] \in 0..DmaSize
    BY <1>1, <2>1
  <2> HIDE DEF c
  <2> QED BY <1>1, <2>2, <2>3, PartOfBuf
<1>5. CASE ~Sending
  <2>1. Pending = <<>>
    BY <1>5 DEF Pending, Sending
  <2> QED BY <2>1
<1> QED BY <1>2, <1>3, <1>4, <1>5 DEF Quiet

(***************************************************************************)
(* Steps that leave log_buf and the parts of it to be sent alone.          *)
(***************************************************************************)
LEMMA PendingKept ==
  ASSUME UNCHANGED <<log_buf, dma, dma_irq, len>>,
         \A u \in Writer : stage'[u] \in Ready <=> stage[u] \in Ready
  PROVE  Pending' = Pending
<1> DEFINE c == CHOOSE u \in Writer : stage[u] \in {"mark", "start", "usart"}
<1>1. c' = c
  BY DEF Ready
<1>2. Sending' <=> Sending
  BY DEF Sending, Ready
<1>3. Pending = IF dma.left > 0 THEN SubSeq(log_buf, dma.next, dma.next + dma.left - 1)
                ELSE IF dma_irq \in 1..DmaSize THEN SubSeq(log_buf, 1, dma_irq)
                ELSE IF Sending THEN SubSeq(log_buf, 1, len[c])
                ELSE <<>>
  BY DEF Pending
<1>4. Pending' = IF dma'.left > 0
                   THEN SubSeq(log_buf', dma'.next, dma'.next + dma'.left - 1)
                 ELSE IF dma_irq' \in 1..DmaSize THEN SubSeq(log_buf', 1, dma_irq')
                 ELSE IF Sending' THEN SubSeq(log_buf', 1, len'[c'])
                 ELSE <<>>
  BY DEF Pending
<1> HIDE DEF c
<1> QED BY <1>1, <1>2, <1>3, <1>4

LEMMA OrderKept ==
  ASSUME InOrder, Pending' = Pending, UNCHANGED <<out, accepted>>, Content' = Content
  PROVE  InOrder'
BY DEF InOrder

LEMMA PutKeepsOrder ==
  ASSUME LogTyped, InOrder, NEW n \in 1..MaxMsg, Put(n),
         Pending' = Pending, UNCHANGED out
  PROVE  InOrder'
<1>1. Inv /\ accepted \in 0..MaxBytes
  BY DEF LogTyped, LogTypeOK, Inv
<1>2. PICK m \in Seq(Byte) : Content' = Content \o m /\ Ids(accepted') = Ids(accepted) \o m
  BY <1>1, PutTakes
<1>3. out \in Seq(Byte) /\ Pending \in Seq(Byte) /\ Content \in Seq(Byte)
  BY <1>1, PendingTyped, ContentFacts DEF LogTyped
<1> DEFINE e == out \o Pending
           c == Content
<1>4. e \o (c \o m) = (e \o c) \o m
  <2>1. e \in Seq(Byte) /\ c \in Seq(Byte)
    BY <1>3, ConcatProperties
  <2> HIDE DEF e, c
  <2> QED BY <2>1, TwoWays
<1> QED BY <1>2, <1>4 DEF InOrder

LEMMA ContentIsSeq == Inv => Content \in Seq(Byte)
BY ContentFacts

(***************************************************************************)
(* A read into log_buf while nothing was pending: what was read is pending *)
(* next, or has been sent.                                                 *)
(***************************************************************************)
LEMMA ReadKeepsOrder ==
  ASSUME LogTyped, InOrder, read_log, UNCHANGED accepted, Pending = <<>>,
         \/ Pending' = moved' /\ UNCHANGED out
         \/ Pending' = <<>> /\ out' = out \o moved'
  PROVE  InOrder'
<1>1. Inv
  BY DEF LogTyped, LogTypeOK, Inv
<1>2. Inv' /\ moved' \in Seq(Byte) /\ Content = moved' \o Content'
  BY <1>1, LogReads
<1>3. Content' \in Seq(Byte)
  <2>1. (Inv => Content \in Seq(Byte))'
    BY ContentIsSeq, PTL
  <2> QED BY <1>2, <2>1
<1>4. out \in Seq(Byte)
  BY DEF LogTyped
<1> DEFINE m == moved'
           c == Content'
<1>5. /\ (out \o <<>>) \o (m \o c) = (out \o m) \o c
      /\ ((out \o m) \o <<>>) \o c = (out \o m) \o c
  <2>1. m \in Seq(Byte) /\ c \in Seq(Byte)
    BY <1>2, <1>3
  <2> HIDE DEF m, c
  <2> QED BY <1>4, <2>1, ThreeParts
<1>6. (out \o <<>>) \o (m \o c) = Ids(accepted)
  BY <1>2 DEF InOrder
<1>7. (out' \o Pending') \o c = (out \o m) \o c
  BY <1>5
<1> QED BY <1>5, <1>6, <1>7 DEF InOrder

(***************************************************************************)
(* The first bytes that are pending leave through the port.                *)
(***************************************************************************)
LEMMA SendKeepsOrder ==
  ASSUME LogTyped, InOrder, NEW s \in Seq(Byte), NEW r \in Seq(Byte),
         Pending = s \o r, out' = out \o s, Pending' = r,
         UNCHANGED accepted, Content' = Content
  PROVE  InOrder'
<1>1. out \in Seq(Byte)
  BY DEF LogTyped
<1>2. out \o (s \o r) = (out \o s) \o r
  BY <1>1, TwoWays
<1> QED BY <1>2 DEF InOrder

-----------------------------------------------------------------------------
(***************************************************************************)
(* No step disturbs the order, as long as nobody has raced.                *)
(***************************************************************************)
LEMMA OrderStep ==
  ASSUME LogTyped, Roles, InOrder, LogTyped', Roles', [LogNext]_logVars, ~raced'
  PROVE  InOrder'
<1> DEFINE Free == \A u \in Writer : stage[u] \notin Ready
<1>0. /\ stage \in [Writer -> Stage] /\ len \in [Writer -> 0..DmaSize]
      /\ log_buf \in [1..DmaSize -> Byte]
      /\ DmaSize \in Nat /\ None \notin 0..DmaSize
      /\ dma.left \in Nat /\ dma \in [next : 1..(DmaSize + 1), left : 0..DmaSize]
      /\ dma.next + dma.left - 1 <= DmaSize
      /\ dma_irq \in 0..None
      /\ out \in Seq(Byte) /\ accepted \in Nat /\ Inv
  BY LogAssumption DEF LogTyped, LogTypeOK, None, Inv
<1>1. PendingRule /\ PendingRule' /\ OneCaller'
  <2>1. (OneCaller => PendingRule)'
    BY PendingFacts, PTL
  <2> QED BY <2>1, PendingFacts DEF Roles
<1>2. ASSUME UNCHANGED fifoVars
      PROVE  Content' = Content
  BY <1>2 DEF fifoVars, Content, Used, At
<1>3. ASSUME read_log, Fill
      PROVE  /\ moved' \in Seq(Byte) /\ Len(moved') \in 0..DmaSize
             /\ SubSeq(log_buf', 1, Len(moved')) = moved'
  <2>1. moved' \in Seq(Byte) /\ Len(moved') \in 0..DmaSize
    BY <1>0, <1>3, LogReads
  <2> QED BY <1>0, <1>3, <2>1, FillHolds
<1>4. ASSUME NEW n \in 1..MaxMsg, NEW t \in Writer, WriteLog(t, n)
      PROVE  InOrder'
  <2>1. Put(n) /\ GoTo(t, "send") /\ stage[t] = "idle" /\ UNCHANGED <<outVars, irqVars, len>>
    BY <1>4 DEF WriteLog
  <2>2. \A u \in Writer : stage'[u] \in Ready <=> stage[u] \in Ready
    BY <1>0, <2>1 DEF GoTo, Ready
  <2>3. Pending' = Pending
    BY <2>1, <2>2, PendingKept DEF outVars, irqVars
  <2> QED BY <2>1, <2>3, PutKeepsOrder DEF outVars
<1>5. ASSUME NEW n \in 1..MaxMsg, HandlerPut(n)
      PROVE  InOrder'
  <2>1. Put(n) /\ UNCHANGED <<outVars, dma_irq, stage, len>>
    BY <1>5 DEF HandlerPut
  <2>2. Pending' = Pending
    BY <2>1, PendingKept DEF outVars
  <2> QED BY <2>1, <2>2, PutKeepsOrder DEF outVars
<1>6. ASSUME NEW t \in Writer, SendToConsole(t)
      PROVE  InOrder'
  <2>1. UNCHANGED <<fifoVars, outVars, irqVars, len, accepted>> /\ stage[t] = "send"
    BY <1>6 DEF SendToConsole
  <2>2. stage' \in {[stage EXCEPT ![t] = s] : s \in {"poll", "idle", "read"}}
    BY <1>6 DEF SendToConsole, GoTo
  <2>3. \A u \in Writer : stage'[u] \in Ready <=> stage[u] \in Ready
    BY <1>0, <2>1, <2>2 DEF Ready
  <2>4. Pending' = Pending
    BY <2>1, <2>3, PendingKept DEF outVars, irqVars
  <2> QED BY <1>2, <2>1, <2>4, OrderKept DEF outVars
<1>7. ASSUME NEW t \in Writer, ReadLog(t)
      PROVE  InOrder'
  <2>1. /\ stage[t] \in {"read", "poll"} /\ read_log /\ Fill
        /\ len' = [len EXCEPT ![t] = Len(moved')]
        /\ UNCHANGED <<dma, out, dma_irq, accepted>>
    BY <1>7 DEF ReadLog, irqVars
  <2>2. Pending = <<>> /\ AtRest /\ Free
    BY <2>1, ReaderHasNoPending
  <2>3. Quiet'
    BY <1>0, <2>1, <2>2 DEF Quiet, AtRest
  <2>4. CASE moved' = <<>>
    <3>1. stage' = [stage EXCEPT ![t] = "idle"]
      BY <1>7, <2>4 DEF ReadLog, GoTo
    <3>2. Free'
      BY <1>0, <2>2, <3>1 DEF Ready
    <3>3. Pending' = moved'
      BY <1>1, <2>3, <2>4, <3>2 DEF PendingRule
    <3> QED BY <2>1, <2>2, <3>3, ReadKeepsOrder
  <2>5. CASE moved' # <<>>
    <3>1. \/ stage[t] = "read" /\ stage' = [stage EXCEPT ![t] = "mark"]
          \/ stage[t] = "poll" /\ stage' = [stage EXCEPT ![t] = "usart"]
      BY <1>7, <2>1, <2>5 DEF ReadLog, GoTo
    <3>2. stage'[t] \in Ready /\ len'[t] = Len(moved')
      BY <1>0, <2>1, <3>1 DEF Ready
    <3>3. Pending' = SubSeq(log_buf', 1, len'[t])
      BY <1>1, <2>3, <3>2 DEF PendingRule
    <3>4. Pending' = moved'
      BY <1>3, <2>1, <3>2, <3>3
    <3> QED BY <2>1, <2>2, <3>4, ReadKeepsOrder
  <2> QED BY <2>4, <2>5
<1>8. ASSUME NEW t \in Writer, MarkTransport(t)
      PROVE  InOrder'
  <2>1. /\ UNCHANGED <<fifoVars, outVars, irqVars, len, accepted>>
        /\ stage[t] = "mark" /\ stage' = [stage EXCEPT ![t] = "start"]
    BY <1>8 DEF MarkTransport, GoTo
  <2>2. \A u \in Writer : stage'[u] \in Ready <=> stage[u] \in Ready
    BY <1>0, <2>1 DEF Ready
  <2>3. Pending' = Pending
    BY <2>1, <2>2, PendingKept DEF outVars, irqVars
  <2> QED BY <1>2, <2>1, <2>3, OrderKept DEF outVars
<1>9. ASSUME NEW t \in Writer, StartDma(t)
      PROVE  InOrder'
  <2>1. /\ UNCHANGED <<fifoVars, log_buf, out, dma_irq, len, accepted>>
        /\ stage[t] = "start" /\ stage' = [stage EXCEPT ![t] = "idle"]
        /\ dma' = [next |-> 1, left |-> len[t]]
    BY <1>9 DEF StartDma, GoTo, irqVars
  <2>2. AtRest /\ len[t] \in 0..DmaSize
    BY <1>0, <2>1 DEF Roles, OneOwner
  <2>3. Pending = SubSeq(log_buf, 1, len[t])
    BY <1>0, <1>1, <2>1, <2>2 DEF PendingRule, Quiet, AtRest, Ready
  <2>4. dma'.next = 1 /\ dma'.left = len[t] /\ 1 + len[t] - 1 = len[t]
    BY <2>1, <2>2
  <2>5. CASE len[t] > 0
    <3>1. Pending' = SubSeq(log_buf', dma'.next, dma'.next + dma'.left - 1)
      BY <1>1, <2>4, <2>5 DEF PendingRule
    <3>2. Pending' = Pending
      BY <2>1, <2>3, <2>4, <3>1
    <3> QED BY <1>2, <2>1, <3>2, OrderKept
  <2>6. CASE len[t] = 0
    <3>1. Pending = <<>>
      BY <2>3, <2>6, SubSeqEmpty
    <3>2. \A u \in Writer : stage[u] \in Ready => u = t
      BY <2>1 DEF Roles, OneCaller, Busy, Ready
    <3>3. Free'
      BY <1>0, <2>1, <3>2 DEF Ready
    <3>4. Quiet'
      BY <1>0, <2>1, <2>2, <2>4, <2>6 DEF Quiet, AtRest
    <3>5. Pending' = Pending
      BY <1>1, <3>1, <3>3, <3>4 DEF PendingRule
    <3> QED BY <1>2, <2>1, <3>5, OrderKept
  <2> QED BY <2>2, <2>5, <2>6
<1>10. ASSUME NEW t \in Writer, UsartSend(t)
       PROVE  InOrder'
  <2>1. /\ UNCHANGED <<fifoVars, log_buf, dma, dma_irq, len, accepted>>
        /\ stage[t] = "usart" /\ stage' = [stage EXCEPT ![t] = "idle"]
        /\ out' = out \o SubSeq(log_buf, 1, len[t])
    BY <1>10 DEF UsartSend, GoTo, irqVars
  <2>2. ~dma_transport
    BY <2>1 DEF Roles, Boot, FlagFits
  <2>3. AtRest
    BY <2>2 DEF Roles, FlagFits
  <2>4. Quiet /\ Quiet'
    BY <1>0, <2>1, <2>3 DEF Quiet, AtRest
  <2>5. Pending = SubSeq(log_buf, 1, len[t])
    BY <1>1, <2>1, <2>4 DEF PendingRule, Ready
  <2>6. \A u \in Writer : stage[u] \in Ready => u = t
    BY <2>1 DEF Roles, OneCaller, Busy, Ready
  <2>7. Free'
    BY <1>0, <2>1, <2>6 DEF Ready
  <2>8. Pending' = <<>>
    BY <1>1, <2>4, <2>7 DEF PendingRule
  <2>9. Pending \in Seq(Byte) /\ <<>> \in Seq(Byte) /\ Pending = Pending \o <<>>
    BY PendingTyped, ConcatEmptySeq
  <2>10. out' = out \o Pending
    BY <2>1, <2>5
  <2> QED BY <1>2, <2>1, <2>8, <2>9, <2>10, SendKeepsOrder
<1>11. CASE KernelRuns
  <2>1. UNCHANGED <<fifoVars, outVars, irqVars, stage, len, accepted>>
    BY <1>11 DEF KernelRuns
  <2>2. Pending' = Pending
    BY <2>1, PendingKept DEF outVars, irqVars
  <2> QED BY <1>2, <2>1, <2>2, OrderKept DEF outVars
<1>12. CASE DmaByte
  <2> DEFINE n == dma.next
             last == dma.next + dma.left - 1
             b == log_buf[n]
             r == SubSeq(log_buf, n + 1, last)
  <2>1. /\ UNCHANGED <<fifoVars, log_buf, dma_irq, stage, len, accepted>>
        /\ out' = Append(out, b) /\ dma.left > 0
        /\ dma' = [next |-> n + 1, left |-> dma.left - 1]
    BY <1>12 DEF DmaByte, irqVars
  <2>2. n \in 1..DmaSize /\ last \in n..DmaSize /\ b \in Byte
    BY <1>0, <2>1
  <2>3. Pending = SubSeq(log_buf, n, last)
    BY <1>1, <2>1 DEF PendingRule
  <2>4. log_buf \in Seq(Byte) /\ Len(log_buf) = DmaSize
    BY <1>0
  <2>5. SubSeq(log_buf, n, last) = <<b>> \o r
    <3> HIDE DEF n, last
    <3> QED BY <2>2, <2>4, SubSeqRecursiveFirst DEF b, r
  <2>6. r \in Seq(Byte) /\ <<b>> \in Seq(Byte)
    BY <1>0, <2>2, PartOfBuf
  <2>7. out' = out \o <<b>>
    BY <1>0, <2>1, <2>2, AppendIsConcat
  <2>8. Pending' = r
    <3>1. /\ dma'.next = n + 1 /\ dma'.left = dma.left - 1 /\ dma'.left \in Nat
          /\ dma'.next + dma'.left - 1 = last
      BY <1>0, <2>1
    <3>2. CASE dma'.left > 0
      BY <1>1, <2>1, <3>1, <3>2 DEF PendingRule
    <3>3. CASE dma'.left = 0
      <4>1. dma_irq = None /\ dma_transport
        BY <1>0, <2>1 DEF Roles, OneOwner, FlagFits, AtRest
      <4>2. Free'
        BY <2>1, <4>1 DEF Roles, FlagFits, OneOwner, AtRest, Boot, Ready
      <4>3. Quiet'
        BY <1>0, <2>1, <3>1, <3>3, <4>1 DEF Quiet
      <4>4. Pending' = <<>>
        BY <1>1, <4>2, <4>3 DEF PendingRule
      <4>5. r = <<>>
        <5>1. dma.left = 1
          BY <1>0, <3>1, <3>3
        <5>2. last < n + 1 /\ last \in Int /\ n + 1 \in Int
          BY <1>0, <2>2, <5>1
        <5> HIDE DEF n, last
        <5> QED BY <5>2, SubSeqEmpty
      <4> QED BY <4>4, <4>5
    <3>4. dma'.left > 0 \/ dma'.left = 0
      <4>1. \A k \in Nat : k > 0 \/ k = 0
        OBVIOUS
      <4>2. dma'.left \in Nat
        BY <3>1, Zenon
      <4> QED BY <4>1, <4>2, Zenon
    <3> HIDE DEF r
    <3> QED BY <3>2, <3>3, <3>4
  <2>9. Pending = <<b>> \o r
    BY <2>3, <2>5
  <2> HIDE DEF b, r
  <2> QED BY <1>2, <2>1, <2>6, <2>7, <2>8, <2>9, SendKeepsOrder
<1>13. CASE DmaIrq
  <2>1. /\ tcif /\ read_log /\ Fill /\ dma_irq' = Len(moved')
        /\ UNCHANGED <<dma, out, stage, len, accepted>>
    BY <1>13 DEF DmaIrq
  <2>2. Pending = <<>> /\ dma.left = 0 /\ Free
    BY <2>1, HandlerHasNoPending
  <2>3. Len(moved') \in 0..DmaSize /\ SubSeq(log_buf', 1, Len(moved')) = moved'
        /\ moved' \in Seq(Byte)
    BY <1>3, <2>1
  <2>4. Pending' = moved'
    <3>1. CASE dma_irq' \in 1..DmaSize
      BY <1>1, <2>1, <2>2, <2>3, <3>1 DEF PendingRule
    <3>2. CASE dma_irq' \notin 1..DmaSize
      <4>1. Len(moved') = 0
        BY <1>0, <2>1, <2>3, <3>2
      <4>2. moved' = <<>>
        BY <2>3, <4>1
      <4>3. Quiet' /\ Free'
        BY <2>1, <2>2, <3>2 DEF Quiet
      <4> QED BY <1>1, <4>2, <4>3 DEF PendingRule
    <3> QED BY <3>1, <3>2
  <2> QED BY <2>1, <2>2, <2>4, ReadKeepsOrder
<1>14. CASE DmaIrqEnd
  <2>1. /\ UNCHANGED <<fifoVars, log_buf, out, stage, len, accepted>>
        /\ dma_irq \in 0..DmaSize /\ dma_irq' = None
    BY <1>0, <1>14 DEF DmaIrqEnd, None
  <2>2. CASE dma_irq = 0 /\ UNCHANGED dma
    <3>1. Pending = <<>> /\ dma.left = 0 /\ Free
      BY <2>2, HandlerHasNoPending
    <3>2. Quiet' /\ Free'
      BY <1>0, <2>1, <2>2, <3>1 DEF Quiet
    <3>3. Pending' = Pending
      BY <1>1, <3>1, <3>2 DEF PendingRule
    <3> QED BY <1>2, <2>1, <3>3, OrderKept
  <2>3. CASE dma_irq > 0 /\ dma' = [next |-> 1, left |-> dma_irq]
    <3>1. dma.left = 0
      BY <1>0, <2>1 DEF Roles, OneOwner
    <3>2. Pending = SubSeq(log_buf, 1, dma_irq)
      BY <1>1, <2>1, <2>3, <3>1 DEF PendingRule
    <3>3. dma'.next = 1 /\ dma'.left = dma_irq /\ 1 + dma_irq - 1 = dma_irq
      BY <2>1, <2>3
    <3>4. Pending' = SubSeq(log_buf', dma'.next, dma'.next + dma'.left - 1)
      BY <1>1, <2>3, <3>3 DEF PendingRule
    <3>5. Pending' = Pending
      BY <2>1, <3>2, <3>3, <3>4
    <3> QED BY <1>2, <2>1, <3>5, OrderKept
  <2> QED BY <1>14, <2>2, <2>3 DEF DmaIrqEnd
<1>15. CASE HandlerSend
  <2>1. /\ read_log /\ Fill /\ out' = out \o moved'
        /\ UNCHANGED <<dma, dma_irq, stage, len, accepted>>
    BY <1>15 DEF HandlerSend
  <2>2. ~Sending
    BY <1>15, Zenon DEF HandlerSend
  <2>3. ~Sending'
    BY <2>1, <2>2 DEF Sending
  <2>4. Pending = <<>> /\ Pending' = <<>>
    BY <1>1, <2>2, <2>3 DEF PendingRule
  <2> QED BY <2>1, <2>4, ReadKeepsOrder
<1>16. CASE UNCHANGED logVars
  <2>1. UNCHANGED <<fifoVars, outVars, irqVars, stage, len, accepted>>
    BY <1>16 DEF logVars
  <2>2. Pending' = Pending
    BY <2>1, PendingKept DEF outVars, irqVars
  <2> QED BY <1>2, <2>1, <2>2, OrderKept DEF outVars
<1> QED BY <1>4, <1>5, <1>6, <1>7, <1>8, <1>9, <1>10, <1>11, <1>12, <1>13, <1>14, <1>15, <1>16
        DEF LogNext, WriterGoesOn

(***************************************************************************)
(* Nobody forgets a race.                                                  *)
(***************************************************************************)
LEMMA RacedStays ==
  ASSUME raced, [LogNext]_logVars
  PROVE  raced'
<1>1. \A t \in Writer : SendToConsole(t) => raced'
  BY Zenon DEF SendToConsole
<1>2. HandlerSend => raced'
  BY Zenon DEF HandlerSend
<1> QED BY <1>1, <1>2, Zenon
        DEF LogNext, WriterGoesOn, WriteLog, HandlerPut, ReadLog, MarkTransport, StartDma,
            UsartSend, KernelRuns, DmaByte, DmaIrq, DmaIrqEnd, logVars

LEMMA LogStep ==
  ASSUME LogInv, [LogNext]_logVars
  PROVE  LogInv'
<1>1. LogTyped'
  BY TypedStep DEF LogInv
<1>2. CASE raced
  BY <1>1, <1>2, RacedStays DEF LogInv
<1>3. CASE raced'
  BY <1>1, <1>3 DEF LogInv
<1>4. CASE ~raced /\ ~raced'
  <2>1. LogTyped /\ Roles /\ InOrder
    BY <1>4 DEF LogInv
  <2>2. Roles'
    BY <2>1, <1>4, RolesStep
  <2>3. InOrder'
    BY <1>1, <1>4, <2>1, <2>2, OrderStep
  <2> QED BY <1>1, <2>2, <2>3 DEF LogInv
<1> QED BY <1>2, <1>3, <1>4

(***************************************************************************)
(* What the log has accepted leaves through the port once and in order,    *)
(* however the tasks, the DMA stream and the handlers interleave, as long  *)
(* as no two callers are between the test of dma_transport and its setting *)
(* and no handler logs while log_buf is being sent                         *)
(* (arch/arm/board/keyboard/arch_console.c:34-51).                         *)
(***************************************************************************)
THEOREM LogDelivers == LogSpec => []Delivered
<1>1. LogInit => LogInv
  BY LogStart
<1>2. LogInv /\ [LogNext]_logVars => LogInv'
  BY LogStep
<1>3. LogInv => Delivered
  BY DEF LogInv, InOrder, Delivered, Ids
<1> QED BY <1>1, <1>2, <1>3, PTL DEF LogSpec

(***************************************************************************)
(* The log drives the ring by its calls only, so that the ring is a queue  *)
(* for it, too, whatever races; MaxCall bounds the calls of the queue and  *)
(* must leave room for those of the log (kernel/printk/log.c).             *)
(***************************************************************************)
THEOREM LogKeepsQueue ==
  ASSUME DmaSize <= MaxCall
  PROVE  LogSpec => IsByteFifo
<1>0. \A n \in 0..DmaSize : n \in 0..MaxCall
  BY LogAssumption, FifoAssumption
<1>1. LogInit => LogInv /\ Fifo!Init
  <2>1. LogInit => Init
    <3>1. 0 \in Byte
      BY LogAssumption
    <3> QED BY <3>1 DEF LogInit, Init
  <2> QED BY <2>1, LogStart, InitHolds
<1>2. LogInv /\ [LogNext]_logVars => LogInv' /\ [Fifo!Next]_(Fifo!qVars)
  <2> SUFFICES ASSUME LogInv, [LogNext]_logVars PROVE LogInv' /\ [Next]_fifoVars
    <3>1. LogInv => Inv
      BY DEF LogInv, LogTyped, LogTypeOK, Inv
    <3> QED BY <3>1, StepRefines
  <2>1. Inv /\ accepted \in Nat
    BY LogAssumption DEF LogInv, LogTyped, LogTypeOK, Inv
  <2>2. ASSUME NEW n \in 1..MaxMsg, Put(n) PROVE Next
    <3>1. n \in Nat /\ n \in 0..DmaSize /\ accepted + n <= MaxBytes
      BY <2>2, LogAssumption DEF Put
    <3>2. n \in 0..MaxCall /\ Message(n) \in [1..n -> Byte]
      BY <1>0, <2>1, <3>1, MessageContinues
    <3> QED BY <2>2, <3>2 DEF Put, Next
  <2>3. ASSUME read_log PROVE Next
    <3>1. Ask \in 0..MaxCall
      BY <1>0, <2>1, AskFits
    <3>2. read_fifo_buf_size(Ask, FALSE) /\ FALSE \in BOOLEAN
      BY <2>3 DEF read_log, read_fifo_buf_size
    <3> QED BY <3>1, <3>2 DEF Next
  <2>4. [Next]_fifoVars
    BY <2>2, <2>3
    DEF LogNext, WriterGoesOn, WriteLog, HandlerPut, SendToConsole, ReadLog, MarkTransport,
        StartDma, UsartSend, KernelRuns, DmaByte, DmaIrq, DmaIrqEnd, HandlerSend, logVars
  <2> QED BY <2>4, LogStep
<1> QED BY <1>1, <1>2, PTL DEF LogSpec, IsByteFifo, Fifo!Spec

=============================================================================
