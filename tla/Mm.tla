--------------------------------- MODULE Mm ---------------------------------
(***************************************************************************)
(* The memory pool of mm/mm.c: blocks of one size, the first of every run  *)
(* with a header.  The headers are linked in a list; a header whose        *)
(* block_num is 0 stands for one free block, any other one for an area of  *)
(* that many blocks.  An address is the number of its block.               *)
(*                                                                         *)
(* Every operation runs with interrupts off and is one step, but for       *)
(* wk_free_by_pid, of which each round of the loop is a step; nothing else *)
(* happens until it ends.                                                  *)
(***************************************************************************)
EXTENDS Naturals, Sequences

CONSTANTS
  N,                  \* mm_pool_data.block_num
  BlockSize, Header,  \* MM_BLOCK_SIZE, sizeof(struct mm_list_t)
  Sizes,              \* the sizes that are asked for
  Pid                 \* pids, 0 for memory that belongs to no task

ASSUME MmAssumption == N \in Nat \ {0} /\ Pid \subseteq Nat /\ 0 \in Pid

VARIABLES
  list,       \* mm_pool_data.head: the blocks whose headers are linked
  block_num,  \* of the header of each block
  pid,        \* of the header of each block
  tail,       \* where the last header points: to the head of the list, or
              \* beyond the pool, to memory that is no header
  sweep,      \* the pid wk_free_by_pid is called with, or 0
  cursor,     \* the place in the list its loop has reached
  lost        \* a walk along the list has left the pool: what follows is
              \* undefined and not modelled

mmVars == <<list, block_num, pid, tail, sweep, cursor, lost>>

Block == 0..(N - 1)

TypeOK ==
  /\ list \in Seq(Block)
  /\ block_num \in [Block -> 0..N]
  /\ pid \in [Block -> Pid]
  /\ tail \in {"head", "beyond"}
  /\ sweep \in Pid /\ cursor \in Nat \ {0}
  /\ lost \in BOOLEAN

\* mm_pool_init: every block is free.
Init ==
  /\ list = [i \in 1..N |-> i - 1]
  /\ block_num = [b \in Block |-> 0]
  /\ pid = [b \in Block |-> 0]
  /\ tail = "head"
  /\ sweep = 0 /\ cursor = 1
  /\ lost = FALSE

Running == ~lost /\ sweep = 0

-----------------------------------------------------------------------------
IsFree(i) == block_num[list[i]] = 0

\* The counter of __find_block stands at n or more behind header i.
FreeRun(i, n) == n <= i /\ \A j \in (i - n + 1)..i : IsFree(j)

\* The test of __find_block, which the counter n passes before n + 1.
Holds(size, n) == size <= BlockSize * n - Header
Need(size, n) == Holds(size, n) /\ \A m \in 1..(n - 1) : ~Holds(size, m)

\* Mutant: the counter is not set back to 0 by an area in use.
found_no_reset(i, n) == IsFree(i) /\ n <= i

\* The walk ends at header i, the first one with n free headers up to it.
Found(i, n) == FreeRun(i, n) /\ \A h \in 1..(i - 1) : ~FreeRun(h, n)

Place(b) == CHOOSE i \in DOMAIN list : list[i] = b

\* What follows the area of n blocks at b: the headers from b + n on.
From(b, n) == IF b + n = N THEN <<>> ELSE SubSeq(list, Place(b + n), Len(list))

\* __mm_alloc; an area that ends with the pool gets a successor beyond it.
Take(b, n, p) ==
  /\ block_num' = [block_num EXCEPT ![b] = n]
  /\ pid' = [pid EXCEPT ![b] = p]
  /\ list' = SubSeq(list, 1, Place(b)) \o From(b, n)
  /\ tail' = IF b + n = N THEN "beyond" ELSE tail
  /\ UNCHANGED <<sweep, cursor, lost>>

\* wk_alloc and stack_alloc.
Alloc(size, p) ==
  /\ Running
  /\ \E n \in 1..N, i \in DOMAIN list :
       /\ Need(size, n) /\ Found(i, n)
       /\ Take(list[i] - (n - 1), n, p)

\* NULL is returned, if the walk comes back to the head of the list.
AllocFails(size) ==
  /\ Running
  /\ \A n \in 1..N, i \in DOMAIN list : ~(Need(size, n) /\ FreeRun(i, n))
  /\ lost' = (tail = "beyond")
  /\ UNCHANGED <<list, block_num, pid, tail, sweep, cursor>>

\* Mutant: one header for the whole area.
split_one(i, n) == list

\* list_splice of the n new headers in the place of header i.
Split(i, n) ==
  [j \in 1..(Len(list) + n - 1) |->
     IF j < i THEN list[j]
     ELSE IF j < i + n THEN list[i] + (j - i)
     ELSE list[j - n + 1]]

\* __mm_free of the area of header i: each of its blocks gets a header.
Return(i) ==
  LET b == list[i]
      n == block_num[b]
      area == b .. (b + n - 1)
  IN  /\ block_num' = [c \in Block |-> IF c \in area THEN 0 ELSE block_num[c]]
      /\ pid' = [c \in Block |-> IF c \in area THEN 0 ELSE pid[c]]
      /\ list' = Split(i, n)
      /\ UNCHANGED <<tail, lost>>

\* wk_free and stack_free, of an area that was handed out.
Release(i) ==
  /\ Running
  /\ ~IsFree(i)
  /\ Return(i)
  /\ UNCHANGED <<sweep, cursor>>

\* wk_free_by_pid, which refuses pid 0 ...
SweepStart(p) ==
  /\ Running /\ p # 0
  /\ sweep' = p /\ cursor' = 1
  /\ UNCHANGED <<list, block_num, pid, tail, lost>>

\* Mutant: the loop goes on behind the successor of the freed area.
sweep_skips ==
  /\ ~lost /\ sweep # 0 /\ cursor \in DOMAIN list
  /\ pid[list[cursor]] = sweep
  /\ Return(cursor)
  /\ cursor' = cursor + block_num[list[cursor]] + 1
  /\ UNCHANGED sweep

\* ... frees an area of the task and goes on with what followed it ...
SweepFree ==
  /\ ~lost /\ sweep # 0 /\ cursor \in DOMAIN list
  /\ pid[list[cursor]] = sweep
  /\ Return(cursor)
  /\ cursor' = cursor + block_num[list[cursor]]
  /\ UNCHANGED sweep

SweepPass ==
  /\ ~lost /\ sweep # 0 /\ cursor \in DOMAIN list
  /\ pid[list[cursor]] # sweep
  /\ cursor' = cursor + 1
  /\ UNCHANGED <<list, block_num, pid, tail, sweep, lost>>

\* ... until it is back at the head of the list.
SweepEnd ==
  /\ ~lost /\ sweep # 0 /\ cursor \notin DOMAIN list
  /\ lost' = (tail = "beyond")
  /\ sweep' = 0 /\ cursor' = 1
  /\ UNCHANGED <<list, block_num, pid, tail>>

Next ==
  \/ \E size \in Sizes : (\E p \in Pid : Alloc(size, p)) \/ AllocFails(size)
  \/ \E i \in DOMAIN list : Release(i)
  \/ \E p \in Pid : SweepStart(p)
  \/ SweepFree \/ SweepPass \/ SweepEnd

Spec == Init /\ [][Next]_mmVars

-----------------------------------------------------------------------------
Width(b) == IF block_num[b] = 0 THEN 1 ELSE block_num[b]

\* The list goes through the pool in the order of the addresses and leaves
\* no gap: __mm_alloc and __find_block compute the neighbour of a header by
\* its address, so that they and the links must agree (mm/mm.c:39, 60).
Tiled ==
  /\ list # <<>> /\ list[1] = 0
  /\ \A i \in 1..(Len(list) - 1) : list[i + 1] = list[i] + Width(list[i])
  /\ list[Len(list)] + Width(list[Len(list)]) = N

\* The areas handed out; those wk_free_by_pid has not come to yet count as
\* freed.
Area(b) == [at |-> b, num |-> block_num[b], pid |-> pid[b]]
Heads == {list[i] : i \in DOMAIN list}
InUse == {b \in Heads : block_num[b] # 0 /\ (sweep = 0 \/ pid[b] # sweep)}
Live == {Area(b) : b \in InUse}

\* First fit on linked headers is an allocator of disjoint areas: a request
\* fails only when no run of free blocks holds it, so that freed neighbours
\* are found again as one run, and wk_free_by_pid frees the areas of the
\* task, all of them and no other (mm/mm.c:30, 70, 130).
Pool == INSTANCE Heap WITH live <- Live
IsHeap == Pool!Spec

=============================================================================
