------------------------------ MODULE FifoBuf ------------------------------
(***************************************************************************)
(* The byte buffer of lib/fifo_buf.c: a ring with a read and a write       *)
(* pointer and a count of the free bytes.  Addresses count from buf_start, *)
(* so that buf_start is 0 and buf_end is Size.  A read or write that runs  *)
(* into the end of the buffer copies two pieces.                           *)
(*                                                                         *)
(* Every call runs with interrupts off: a call is one step.                *)
(***************************************************************************)
EXTENDS Naturals, Sequences

CONSTANTS
  Byte,       \* the values a byte takes
  Size,       \* buf_size
  MaxCall     \* bound: the longest read or write that is asked for

ASSUME FifoAssumption == Size \in Nat \ {0} /\ MaxCall \in Nat

VARIABLES
  mem,          \* the bytes from buf_start up to buf_end
  read, write,  \* the two pointers
  free_size,    \* the count of free bytes
  moved         \* history: what the last call copied

fifoVars == <<mem, read, write, free_size, moved>>

Addr == 0..(Size - 1)
Used == Size - free_size

\* Neither pointer rests on buf_end, and the count is the one that belongs
\* to the pointers; equal pointers stand for an empty or for a full buffer.
TypeOK ==
  /\ mem \in [Addr -> Byte]
  /\ read \in Addr /\ write \in Addr
  /\ free_size \in 0..Size

\* FIFO_BUF_INIT; the memory is what it is.
Init ==
  /\ mem \in [Addr -> Byte]
  /\ read = 0 /\ write = 0 /\ free_size = Size
  /\ moved = <<>>

-----------------------------------------------------------------------------
\* A pointer that has reached buf_end goes back to buf_start.
Wrap(p) == IF p >= Size THEN 0 ELSE p

\* A write into two pieces: up to the end, and the rest from the start.
WriteSplit(s) ==
  LET n == Len(s)
      room == Size - write
  IN  /\ n <= free_size
      /\ write >= read /\ room < n
      /\ mem' = [i \in Addr |-> IF i >= write THEN s[i - write + 1]
                                ELSE IF i < n - room THEN s[room + i + 1]
                                ELSE mem[i]]
      /\ write' = Wrap(n - room)
      /\ free_size' = free_size - n
      /\ moved' = s
      /\ UNCHANGED read

WriteWhole(s) ==
  LET n == Len(s)
  IN  /\ n <= free_size
      /\ ~(write >= read /\ Size - write < n)
      /\ mem' = [i \in Addr |-> IF i >= write /\ i < write + n
                                  THEN s[i - write + 1] ELSE mem[i]]
      /\ write' = Wrap(write + n)
      /\ free_size' = free_size - n
      /\ moved' = s
      /\ UNCHANGED read

\* The test of the room there is, on either side.
Refused(n, have) == n > have /\ moved' = <<>> /\ UNCHANGED <<mem, read, write, free_size>>

write_fifo_buf_size(s) ==
  WriteSplit(s) \/ WriteWhole(s) \/ Refused(Len(s), free_size)

\* Mutant: the second piece is taken from where the first one began.
split_repeats(n) ==
  LET rest == Size - read
  IN  [i \in 1..n |-> IF i <= rest THEN mem[read + i - 1] ELSE mem[i - 1]]

\* What a read of two pieces copies.
SplitBytes(n) ==
  LET rest == Size - read
  IN  [i \in 1..n |-> IF i <= rest THEN mem[read + i - 1] ELSE mem[i - 1 - rest]]

ReadSplit(n, test) ==
  /\ n <= Used
  /\ read >= write /\ n > Size - read
  /\ moved' = SplitBytes(n)
  /\ IF test THEN UNCHANGED <<read, free_size>>
             ELSE /\ read' = Wrap(n - (Size - read))
                  /\ free_size' = free_size + n
  /\ UNCHANGED <<mem, write>>

ReadWhole(n, test) ==
  /\ n <= Used
  /\ ~(read >= write /\ n > Size - read)
  /\ moved' = [i \in 1..n |-> mem[read + i - 1]]
  /\ IF test THEN UNCHANGED <<read, free_size>>
             ELSE /\ read' = Wrap(read + n)
                  /\ free_size' = free_size + n
  /\ UNCHANGED <<mem, write>>

\* read_fifo_buf_size, and read_fifo_buf_size_test, which leaves the bytes.
read_fifo_buf_size(n, test) ==
  ReadSplit(n, test) \/ ReadWhole(n, test) \/ Refused(n, Used)

-----------------------------------------------------------------------------
Next ==
  \E n \in 0..MaxCall :
    \/ \E s \in [1..n -> Byte] : write_fifo_buf_size(s)
    \/ \E test \in BOOLEAN : read_fifo_buf_size(n, test)

Spec == Init /\ [][Next]_fifoVars

-----------------------------------------------------------------------------
\* The three fields stand for one buffer: the bytes in use lead from the read
\* pointer to the write pointer, past the end of the memory if need be.
\* Equal pointers with a count that is neither 0 nor Size would lose bytes or
\* return stale ones (lib/fifo_buf.c:21, 81).
CountFitsPointers ==
  \/ read + Used = write
  \/ read + Used = write + Size

\* The bytes in use, oldest first.
At(k) == IF read + k - 1 >= Size THEN mem[read + k - 1 - Size] ELSE mem[read + k - 1]
Content == [k \in 1..Used |-> At(k)]

\* The ring is the queue that ByteFifo describes: every call returns and
\* leaves behind what the queue does, whatever the wrap-around.
Fifo == INSTANCE ByteFifo WITH q <- Content
IsByteFifo == Fifo!Spec

=============================================================================
