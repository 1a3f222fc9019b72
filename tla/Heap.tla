-------------------------------- MODULE Heap --------------------------------
(***************************************************************************)
(* What the memory pool promises (include/wk/mm.h): memory that is handed  *)
(* out is big enough, belongs to nobody else and stays with its owner      *)
(* until it is freed; a request is refused only when no run of free blocks *)
(* is long enough.                                                         *)
(***************************************************************************)
EXTENDS Naturals

CONSTANTS
  N,                  \* blocks of the pool
  BlockSize, Header,  \* MM_BLOCK_SIZE, sizeof(struct mm_list_t)
  Sizes,              \* the sizes that are asked for
  Pid                 \* pids, 0 for memory that belongs to no task

VARIABLE live   \* the areas handed out: first block, length in blocks, pid

Areas == [at : 0..(N - 1), num : 1..N, pid : Pid]

Cover(a) == a.at .. (a.at + a.num - 1)

\* num blocks hold the header and size bytes, and no fewer do.
Holds(size, num) == size <= BlockSize * num - Header
Need(size, num) == Holds(size, num) /\ \A m \in 1..(num - 1) : ~Holds(size, m)

\* The blocks of an area that may be handed out.
Free(a) == a.at + a.num <= N /\ \A l \in live : Cover(l) \cap Cover(a) = {}

Init == live = {}

Alloc(size, pid) ==
  \/ \E a \in Areas :
       /\ a.pid = pid /\ Need(size, a.num) /\ Free(a)
       /\ live' = live \cup {a}
  \/ /\ \A a \in Areas : Need(size, a.num) => ~Free(a)
     /\ UNCHANGED live

Release(a) == a \in live /\ live' = live \ {a}

ReleasePid(pid) == live' = {a \in live : a.pid # pid}

Next ==
  \/ \E size \in Sizes, pid \in Pid : Alloc(size, pid)
  \/ \E a \in Areas : Release(a)
  \/ \E pid \in Pid \ {0} : ReleasePid(pid)

Spec == Init /\ [][Next]_live

=============================================================================
