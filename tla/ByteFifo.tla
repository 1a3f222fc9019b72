------------------------------ MODULE ByteFifo ------------------------------
(***************************************************************************)
(* What a byte buffer promises (include/lib/fifo_buf.h): the bytes that    *)
(* were written come out once each, in the order in which they went in; a  *)
(* call moves all it was asked to move, or nothing and returns 0.          *)
(***************************************************************************)
EXTENDS Naturals, Sequences

CONSTANTS
  Byte,       \* the values a byte takes
  Size,       \* buf_size
  MaxCall     \* bound: the longest read or write that is asked for

VARIABLES
  q,      \* the bytes in the buffer, oldest first
  moved   \* what the last call copied, as many bytes as it returned

qVars == <<q, moved>>

Init == q = <<>> /\ moved = <<>>

Write(s) ==
  \/ /\ Len(q) + Len(s) <= Size
     /\ q' = q \o s /\ moved' = s
  \/ /\ Len(q) + Len(s) > Size
     /\ q' = q /\ moved' = <<>>

Peek(n) ==
  \/ /\ n <= Len(q)
     /\ q' = q /\ moved' = SubSeq(q, 1, n)
  \/ /\ n > Len(q)
     /\ q' = q /\ moved' = <<>>

Read(n) ==
  \/ /\ n <= Len(q)
     /\ q' = SubSeq(q, n + 1, Len(q)) /\ moved' = SubSeq(q, 1, n)
  \/ /\ n > Len(q)
     /\ q' = q /\ moved' = <<>>

Next ==
  \E n \in 0..MaxCall : \/ \E s \in [1..n -> Byte] : Write(s)
                        \/ Read(n)
                        \/ Peek(n)

Spec == Init /\ [][Next]_qVars

=============================================================================
