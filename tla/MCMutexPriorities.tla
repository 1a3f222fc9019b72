------------------------ MODULE MCMutexPriorities -------------------------
(***************************************************************************)
(* Mutex for TLC with two assignments of priorities at once: a user of the *)
(* mutex and another task own queues and all have one priority, or         *)
(* everybody owns a queue and one user is more urgent than the other.      *)
(***************************************************************************)
EXTENDS MCMutex

VARIABLE case

Same == INSTANCE Mutex WITH
  InitPriority <- MCSamePriority, TimerPriority <- MCSamePriority,
  QueueOwner <- {a, c}
Differ == INSTANCE Mutex WITH
  InitPriority <- MCInitPriority, TimerPriority <- MCInitPriority,
  QueueOwner <- {a, b, c}

MCInit ==
  \/ case = "same" /\ Same!MutexInit
  \/ case = "differ" /\ Differ!MutexInit
MCNext ==
  /\ \/ case = "same" /\ Same!MutexNext
     \/ case = "differ" /\ Differ!MutexNext
  /\ UNCHANGED case
MCSpec == MCInit /\ [][MCNext]_<<mutexVars, case>>

=============================================================================
