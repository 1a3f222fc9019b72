------------------------------ MODULE MsgQueue ------------------------------
(***************************************************************************)
(* A message queue (kernel/msg_queue.c) on the running kernel.  Its blocks *)
(* move between free_msg_list and msg_list under the queue's mutex; a task *)
(* or a device handler sends, the owner receives, with or without a        *)
(* timeout.                                                                *)
(*                                                                         *)
(* Messages are numbered in the order they are accepted.  The mutex is the *)
(* one of Mutex; msg_q_send of a handler locks it in the name of whichever *)
(* task is current and does not wait.                                      *)
(***************************************************************************)
EXTENDS Mutex

CONSTANTS
  Owner,        \* msg_q->owner, the task that receives
  Sender,       \* the tasks that send
  Block,        \* the blocks of the pool
  Timeouts,     \* the timeouts passed to msg_q_recv_timeout
  IsrSends,     \* whether device handlers send to the queue
  MaxPosts      \* bound: the number of messages accepted

ASSUME MsgQueueAssumption ==
  /\ Owner \in User /\ Sender \subseteq User \ {Owner}
  /\ IsFiniteSet(Block) /\ Block # {}
  /\ Timeouts \subseteq Nat /\ IsrSends \in BOOLEAN /\ MaxPosts \in Nat

VARIABLES
  msg_list, free_msg_list,
  content,      \* the message each block carries
  stage,        \* where each task is in msg_q_send or msg_q_recv
  hand,         \* the blocks the local variable msg_block stands for: of a
                \* sender, or of the owner, that is on neither list
  posted,       \* history: the messages accepted
  received,     \* history: the message the owner has received last
  missed        \* history: a sender looked at the owner's status while the
                \* owner had found the list empty and was not hanging yet

queueVars == <<msg_list, free_msg_list, content, stage, hand, posted, received, missed>>
msgVars == <<mutexVars, queueVars>>

\* "send" and "recv" call mutex_lock, "full" and "unlock" mutex_unlock,
\* "del" and "free" are inside the owner's critical section, "wake" stands
\* before the look at the owner's status; "hang" and "timed" are the owner's
\* window behind the test of the list, "flag" and "check" follow the wait.
Stage == {"idle", "send", "full", "unlock", "wake",
          "hang", "timed", "flag", "check", "recv", "del", "free", "done"}

MsgTypeOK ==
  /\ MutexTypeOK
  /\ msg_list \in Seq(Block) /\ free_msg_list \in Seq(Block)
  /\ content \in [Block -> 0..MaxPosts]
  /\ stage \in [Task -> Stage]
  /\ hand \in SUBSET Block
  /\ posted \in 0..MaxPosts /\ received \in 0..MaxPosts
  /\ missed \in BOOLEAN

\* __msg_q_init and msg_pool_init.
MsgInit ==
  /\ MutexInit
  /\ msg_list = <<>> /\ free_msg_list = SetToSeq(Block)
  /\ content = [b \in Block |-> 0]
  /\ stage = [t \in Task |-> "idle"]
  /\ hand = {}
  /\ posted = 0 /\ received = 0 /\ missed = FALSE

GoTo(t, s) == stage' = [stage EXCEPT ![t] = s]

-----------------------------------------------------------------------------
\* mutex_lock, either way.
Lock(t) == Acquire(t) \/ Enqueue(t)
Locked(t, s) == InApp(t) /\ at[t] = "in" /\ stage[t] = s

\* usbd_core_init: nobody sends before the owner of the queue runs.
Running == sch.status[Owner] \in Runnable \cup {"wait"}

SendCall(t) ==
  /\ t \in Sender /\ Running /\ stage[t] = "idle" /\ posted < MaxPosts
  /\ Lock(t) /\ GoTo(t, "send")
  /\ UNCHANGED <<msg_list, free_msg_list, content, hand, posted, received, missed>>

\* Mutant: the message goes to the head of the list.
put_at_head ==
  /\ content' = [content EXCEPT ![Head(free_msg_list)] = posted + 1]
  /\ msg_list' = <<Head(free_msg_list)>> \o msg_list
  /\ free_msg_list' = Tail(free_msg_list)
  /\ posted' = posted + 1

\* mag_block_alloc, the message is copied, list_add_tail.
Put ==
  /\ content' = [content EXCEPT ![Head(free_msg_list)] = posted + 1]
  /\ msg_list' = Append(msg_list, Head(free_msg_list))
  /\ free_msg_list' = Tail(free_msg_list)
  /\ posted' = posted + 1

SendPut(t) ==
  /\ Locked(t, "send") /\ free_msg_list # <<>> /\ posted < MaxPosts
  /\ Put /\ GoTo(t, "unlock")
  /\ UNCHANGED <<mutexVars, hand, received, missed>>

SendFull(t) ==
  /\ Locked(t, "send") /\ free_msg_list = <<>>
  /\ GoTo(t, "full")
  /\ UNCHANGED <<mutexVars, msg_list, free_msg_list, content, hand, posted, received, missed>>

\* mutex_unlock; the rest of a task_resume in it are steps of Mutex.
Unlock(t) ==
  /\ stage[t] \in {"full", "unlock", "done"} /\ at[t] = "in"
  /\ UnlockFree(t) \/ UnlockHand(t) \/ UnlockOther(t)
  /\ GoTo(t, IF stage[t] = "unlock" THEN "wake" ELSE "idle")
  /\ UNCHANGED <<msg_list, free_msg_list, content, hand, posted, received, missed>>

\* The owner has found the list empty and has not called task_hang yet.
Blind == stage[Owner] \in {"hang", "timed"}

\* Mutant: the test is the wrong way round.
wake_ready_only(t) ==
  /\ InApp(t) /\ at[t] = "out" /\ stage[t] = "wake"
  /\ IF sch.status[Owner] # "ready"
       THEN UNCHANGED <<heir, at>>
       ELSE /\ heir' = [heir EXCEPT ![t] = Owner]
            /\ at' = [at EXCEPT ![t] = "mark"]
  /\ GoTo(t, "idle")
  /\ missed' = (missed \/ Blind)
  /\ UNCHANGED <<vars, lock, disturbed, msg_list, free_msg_list, content, hand, posted, received>>

\* The owner is resumed, unless it is in the ready state.
SendWake(t) ==
  /\ InApp(t) /\ at[t] = "out" /\ stage[t] = "wake"
  /\ IF sch.status[Owner] = "ready"
       THEN UNCHANGED <<heir, at>>
       ELSE /\ heir' = [heir EXCEPT ![t] = Owner]
            /\ at' = [at EXCEPT ![t] = "mark"]
  /\ GoTo(t, "idle")
  /\ missed' = (missed \/ Blind)
  /\ UNCHANGED <<vars, lock, disturbed, msg_list, free_msg_list, content, hand, posted, received>>

-----------------------------------------------------------------------------
\* The test of msg_q_recv (timed is FALSE) and of msg_q_recv_timeout.
RecvTest(timed) ==
  /\ InApp(Owner) /\ at[Owner] = "out" /\ stage[Owner] = "idle"
  /\ \/ msg_list # <<>> /\ GoTo(Owner, IF timed THEN "flag" ELSE "check")
     \/ msg_list = <<>> /\ GoTo(Owner, IF timed THEN "timed" ELSE "hang")
  /\ missed' = FALSE
  /\ UNCHANGED <<mutexVars, msg_list, free_msg_list, content, hand, posted, received>>

\* task_hang, whether or not a message has arrived since.
RecvHang ==
  /\ stage[Owner] = "hang" /\ TaskHang(Owner)
  /\ GoTo(Owner, "check")
  /\ UNCHANGED <<lock, at, heir, disturbed, msg_list, free_msg_list, content, hand, posted, received, missed>>

\* task_hang and timer_start in one critical section; a timeout of 0 is
\* -ENOMSG at once.
RecvHangTimed(n) ==
  /\ InApp(Owner) /\ stage[Owner] = "timed"
  /\ IF n = 0
       THEN GoTo(Owner, "idle") /\ UNCHANGED <<sch, tm, pc>>
       ELSE /\ sch' = hang(sch, Owner)
            /\ tm' = timer_start(tm, Owner, n)
            /\ pc' = [pc EXCEPT ![Owner] = "hung"]
            /\ GoTo(Owner, "flag")
  /\ UNCHANGED <<slice, flag, tick, victim, lock, at, heir, disturbed,
                 msg_list, free_msg_list, content, hand, posted, received, missed>>

\* Mutant: the mark is not taken away.
flag_stays ==
  /\ InApp(Owner) /\ stage[Owner] = "flag"
  /\ GoTo(Owner, IF flag[Owner] THEN "idle" ELSE "check")
  /\ UNCHANGED <<mutexVars, msg_list, free_msg_list, content, hand, posted, received, missed>>

\* -ETIMEDOUT if the mark is there, even if a message is.
RecvFlag ==
  /\ InApp(Owner) /\ stage[Owner] = "flag"
  /\ flag' = [flag EXCEPT ![Owner] = FALSE]
  /\ GoTo(Owner, IF flag[Owner] THEN "idle" ELSE "check")
  /\ UNCHANGED <<sch, tm, slice, pc, tick, victim, lock, at, heir, disturbed,
                 msg_list, free_msg_list, content, hand, posted, received, missed>>

\* __msg_q_recv: -ENOMSG if the list is empty after all ...
RecvEmpty ==
  /\ InApp(Owner) /\ stage[Owner] = "check" /\ msg_list = <<>>
  /\ GoTo(Owner, "idle")
  /\ UNCHANGED <<mutexVars, msg_list, free_msg_list, content, hand, posted, received, missed>>

RecvLock ==
  /\ stage[Owner] = "check" /\ msg_list # <<>>
  /\ Lock(Owner) /\ GoTo(Owner, "recv")
  /\ UNCHANGED <<msg_list, free_msg_list, content, hand, posted, received, missed>>

\* ... else the first message is copied, its block taken off the list and
\* given back.
RecvRead ==
  /\ Locked(Owner, "recv") /\ msg_list # <<>>
  /\ hand' = {Head(msg_list)} /\ received' = content[Head(msg_list)]
  /\ GoTo(Owner, "del")
  /\ UNCHANGED <<mutexVars, msg_list, free_msg_list, content, posted, missed>>

RecvDel ==
  /\ Locked(Owner, "del")
  /\ \E b \in hand : msg_list' = ListDel(msg_list, b)
  /\ GoTo(Owner, "free")
  /\ UNCHANGED <<mutexVars, free_msg_list, content, hand, posted, received, missed>>

\* Mutant: the block is not given back.
free_leaks ==
  /\ Locked(Owner, "free")
  /\ hand' = {}
  /\ GoTo(Owner, "done")
  /\ UNCHANGED <<mutexVars, msg_list, free_msg_list, content, posted, received, missed>>

RecvFree ==
  /\ Locked(Owner, "free")
  /\ \E b \in hand : free_msg_list' = ListAddTail(free_msg_list, b)
  /\ hand' = {}
  /\ GoTo(Owner, "done")
  /\ UNCHANGED <<mutexVars, msg_list, content, posted, received, missed>>

-----------------------------------------------------------------------------
(***************************************************************************)
(* msg_q_send of a device handler: mutex_lock, mutex_unlock and            *)
(* task_resume on a record of what they change.  They act in the name of   *)
(* whichever task is current: it becomes the owner, or it is hung and the  *)
(* handler goes on without the mutex.                                      *)
(***************************************************************************)
State == [sch |-> sch, tm |-> tm, pc |-> pc, lock |-> lock]

IsrLock(s) ==
  LET c == s.sch.cur
      l == ListDel(s.lock.wait_list, c)
      k == Inherit(s.sch, c)
      hangs == s.sch.status[c] \in Runnable
  IN  IF s.lock.count = 1
        THEN [s EXCEPT !.lock = [s.lock EXCEPT !.count = 0, !.owner = c]]
        ELSE [s EXCEPT !.lock = [s.lock EXCEPT !.wait_list = ListAddBefore(l, WaitPlace(l, c), c)],
                       !.sch = switch_task(IF hangs THEN hang(k, c) ELSE k),
                       !.tm = IF hangs THEN timer_stop(s.tm, c) ELSE s.tm]

IsrResume(s, u) ==
  [s EXCEPT !.sch = switch_task(resume(s.sch, u)), !.tm = timer_stop(s.tm, u)]

IsrUnlock(s) ==
  LET c == s.sch.cur
      k == task_set_prio(s.sch, c, InitPriority[c])
  IN  IF s.lock.owner # c \/ s.lock.count # 0 THEN s
      ELSE IF s.lock.wait_list = <<>>
        THEN [s EXCEPT !.lock = [s.lock EXCEPT !.count = 1, !.owner = NoTask], !.sch = k]
        ELSE LET u == Head(s.lock.wait_list)
             IN  IsrResume([s EXCEPT !.lock = [s.lock EXCEPT !.owner = u], !.sch = k], u)

IsrWakeOwner(s) ==
  IF s.sch.status[Owner] = "ready" THEN s ELSE IsrResume(s, Owner)

\* A handler that finds the mutex taken, by the task it interrupts or by
\* another one, walks into that task's critical section.  It also readies the
\* current task, by task_set_prio, and the owner of the queue.
IsrDisturbs ==
  disturbed' = (disturbed \/ lock.count = 0
                  \/ \E u \in {sch.cur, Owner} : Meddles(NoTask, u))

\* What later messages find in lists that two have changed at once is undefined.
IsrSend ==
  LET locked == IsrLock(State)
      unlocked == IsrUnlock(locked)
      end == IF free_msg_list = <<>> THEN unlocked ELSE IsrWakeOwner(unlocked)
  IN  /\ IsrSends /\ ~disturbed
      /\ ~Booting /\ Running /\ posted < MaxPosts
      /\ PickIsTask(sch)
      /\ IF free_msg_list = <<>>
           THEN UNCHANGED <<msg_list, free_msg_list, content, posted>>
           ELSE Put
      /\ sch' = end.sch /\ tm' = end.tm /\ lock' = end.lock
      /\ missed' = (missed \/ (free_msg_list # <<>> /\ Blind))
      /\ IsrDisturbs
      /\ UNCHANGED <<slice, flag, pc, tick, victim, at, heir, stage, hand, received>>

-----------------------------------------------------------------------------
MutexGoesOn(t) ==
  /\ \/ LockHang(t) \/ LockReturn(t)
     \/ ResumeMark(t) \/ ResumeUnlink(t) \/ ResumeAdd(t)
  /\ UNCHANGED queueVars

QueueSleep(t) == stage[t] = "idle" /\ Sleep(t) /\ UNCHANGED queueVars

\* A message of a handler for another queue, that of a sender.
OtherPost(t) == IsrPost(t) /\ UNCHANGED queueVars

SendStep(t) == SendCall(t) \/ SendPut(t) \/ SendFull(t) \/ SendWake(t)

RecvStep ==
  \/ \E timed \in {t \in BOOLEAN : t => Timeouts # {}} : RecvTest(timed)
  \/ RecvHang \/ (\E n \in Timeouts : RecvHangTimed(n)) \/ RecvFlag
  \/ RecvEmpty \/ RecvLock \/ RecvRead \/ RecvDel \/ RecvFree

MsgNext ==
  \/ KernelStep /\ UNCHANGED queueVars
  \/ \E t \in User : MutexGoesOn(t) \/ QueueSleep(t) \/ Unlock(t) \/ SendStep(t)
  \/ \E t \in User : OtherPost(t)
  \/ RecvStep \/ IsrSend

MsgSpec == MsgInit /\ [][MsgNext]_msgVars

-----------------------------------------------------------------------------
\* Each block is on one of the two lists or in the owner's hand, once,
\* whatever becomes of the calls: the pool does not shrink while the mutex is
\* left alone (kernel/msg_queue.c:91-107).
BlocksKept ==
  LET out == IF stage[Owner] = "free" THEN hand ELSE {}
  IN  \/ disturbed
      \/ /\ NoDup(msg_list) /\ NoDup(free_msg_list)
         /\ ToSet(msg_list) \cup ToSet(free_msg_list) \cup out = Block
         /\ Len(msg_list) + Len(free_msg_list) + Cardinality(out) = Cardinality(Block)

\* The list holds the messages accepted and not received, in their order:
\* none is lost, received twice or overtaken while the mutex is left alone
\* (kernel/msg_queue.c:133, 165).
InOrderOnce ==
  \/ disturbed
  \/ /\ \A i \in DOMAIN msg_list :
          content[msg_list[i]] = posted - Len(msg_list) + i
     /\ received = posted - Len(msg_list) + (IF stage[Owner] = "del" THEN 1 ELSE 0)

\* Who takes messages off the list or puts them on it is between mutex_lock
\* and mutex_unlock, and nobody else, a handler included, touches the lists
\* meanwhile (kernel/msg_queue.c:124, 164).
Touched == msg_list' # msg_list \/ free_msg_list' # free_msg_list
OthersTouch ==
  /\ Touched
  /\ \E t \in User : at[t] = "in" /\ lock.owner = t /\ stage'[t] = stage[t]
Alone == [][~OthersTouch]_msgVars

\* The same as long as nobody is readied behind the mutex's back and no handler
\* has walked into a critical section: then the steps here that change a list
\* are those of the code, and nothing comes between its stores.
TasksKeepOut == [][OthersTouch => disturbed']_msgVars

\* The mark of a timeout belongs to the receive that waits: no later receive
\* finds it and returns -ETIMEDOUT although its own timer has not run out
\* (kernel/msg_queue.c:240).  The mark of a sleep between receives is cleared
\* at its end.
MarkIsFresh ==
  flag[Owner] => stage[Owner] = "flag" \/ pc[Owner] \in {"slept", "clear"} \/ disturbed

\* The owner waits although there are messages only if a sender looked at its
\* status in the window before task_hang: every other message wakes it
\* (kernel/msg_queue.c:139, 190).
Waits == sch.status[Owner] = "wait" /\ stage[Owner] \in {"flag", "check"}
Waking == \E t \in User : stage[t] \in {"unlock", "wake"} \/ heir[t] = Owner
LateOnlyIfMissed == Waits /\ msg_list # <<>> /\ ~Waking => missed \/ disturbed

=============================================================================
