-------------------------------- MODULE Com --------------------------------
(***************************************************************************)
(* The com task (app/keyboard/com): commands of a host over the bulk       *)
(* endpoints of the WinUSB function, and the download of an image into     *)
(* flash.  Every transfer is started, then waited for on a semaphore for   *)
(* two seconds; usbd, which is more urgent, ends it (_data_notify of       *)
(* drivers/usb/device/core/core.c) between any two steps of the com task.  *)
(* usbd may handle the event of an endpoint once, never or twice, as the   *)
(* buffer of usbd_event_signal in Usb is overwritten.                      *)
(*                                                                         *)
(* Lengths are counted in packets: one for a command, an acknowledgement   *)
(* or the version, some for a package of the image.  Flash is kept by      *)
(* places, each behind the sizes of the packages before it: what is        *)
(* written at one is overwritten from there only by a later package.  The  *)
(* host is not part of the repository; it is what com_download_img         *)
(* answers: it may repeat a package the device waits behind, name another  *)
(* partition, stop anywhere, give up, and then starts an image again when  *)
(* the device waits for a command.                                         *)
(***************************************************************************)
EXTENDS Integers, Sequences

CONSTANTS
  N,            \* the packages of the image
  Chunks,       \* the packets of the longest package
  Images,       \* the packets of each package, for every image there may be
  Partition,    \* the partitions write_img_to_flash knows
  Index,        \* what a package may name
  MaxCmds,      \* bounds: the commands the host sends,
  MaxUnplugs,   \* how often the configuration is lost or the host gives up,
  MaxTimeouts,  \* how often the timer fires
  MaxFaults     \* and how many events are not handled once

ASSUME ComAssumption ==
  /\ N \in Nat \ {0} /\ Chunks \in Nat \ {0}
  /\ Images \subseteq [1..N -> 1..Chunks] /\ Partition \subseteq Index
  /\ MaxCmds \in Nat /\ MaxUnplugs \in Nat
  /\ MaxTimeouts \in Nat /\ MaxFaults \in Nat

VARIABLES
  at, step,     \* the transfer the com task works on and how far it is
  sem,          \* the counts of read_sem and write_sem
  listed,       \* the task is on the wait list of the semaphore
  timer,        \* its timer runs
  mark,         \* task->flag: the timer has fired
  request,      \* ep_out->request: the buffer, the packets to come, the offset
  out, in,      \* the controller: what it writes the next packet to, and
                \* whether it has one to send
  conf,         \* the device is configured
  mem,          \* what the buffers hold
  pkg,          \* the package of the download: its data_type, size and end
  index, room,  \* img_index, and the packets img_buf was allocated for
  last_type,    \* last_data_type and
  addr,         \* addr of com_download_img
  flash,        \* the packages in flash
  host,         \* what the host waits for, its package and its next packet
  length,       \* the host's image: the packets of each package
  budget,       \* bounds: what is still to come of each
  late,         \* history: a unit was counted that its own get did not find
  twice,        \* history: how many events of each direction were handled twice
  gaveUp,       \* history: a read has timed out
  stray         \* the controller has written to memory that is not the
                \* buffer's any more: nothing is known from there on

comTaskVars == <<at, pkg, index, room, last_type, addr, flash>>
waitVars == <<step, sem, listed, timer, mark, late>>
linkVars == <<request, out, in, mem, twice, stray>>
comVars == <<comTaskVars, waitVars, linkVars, conf, host, length, budget, gaveUp>>

Reads == {"cmd", "vread", "img", "tmp"}
Writes == {"heart", "vack", "vdata", "ack1", "ack2"}
Download == {"ack1", "img", "ack2", "tmp"}

Dir(a) == IF a \in Reads THEN "read" ELSE "write"
Size(a) == IF a = "img" THEN length[pkg] ELSE 1
Room(b) == IF b = "img" THEN room ELSE 1

Piece(kind, k, c, i) == [kind |-> kind, k |-> k, c |-> c, index |-> i]
NoPiece == Piece("none", 0, 0, 0)
Kind == {"none", "heart", "version", "download", "ack", "data"}
Image(k) == [c \in 1..length[k] |-> Piece("data", k, c, 0)]

DATA_ERR == 2
DataType(k) == k % 2
Off == [on |-> FALSE, buf |-> "cmd", pos |-> 0]

ComTypeOK ==
  /\ at \in Reads \cup Writes \cup {"reboot"}
  /\ step \in {"call", "fire", "get", "enlist", "listed", "hung", "early", "wait", "back", "ok", "failed"}
  /\ sem \in [{"read", "write"} -> 0..255]
  /\ listed \in BOOLEAN /\ timer \in BOOLEAN /\ mark \in BOOLEAN
  /\ request \in [buf : Reads, remain : 0..Chunks, pos : 0..(2 * Chunks)]
  /\ out \in [on : BOOLEAN, buf : Reads, pos : 0..(2 * Chunks)] /\ in \in BOOLEAN
  /\ conf \in BOOLEAN /\ late \in BOOLEAN /\ gaveUp \in BOOLEAN /\ stray \in BOOLEAN
  /\ mem \in [Reads -> [1..Chunks -> [kind : Kind, k : 0..N, c : 0..Chunks, index : Index \cup {0}]]]
  /\ pkg \in 1..N /\ room \in 0..Chunks /\ last_type \in 0..DATA_ERR /\ addr \in 0..MaxCmds
  /\ twice \in [{"read", "write"} -> 0..MaxFaults]

ComInit ==
  /\ at = "cmd" /\ step = "call"
  /\ sem = [d \in {"read", "write"} |-> 0]
  /\ listed = FALSE /\ timer = FALSE /\ mark = FALSE
  /\ request = [buf |-> "cmd", remain |-> 0, pos |-> 0] /\ out = Off /\ in = FALSE
  /\ conf = FALSE
  /\ mem = [b \in Reads |-> [c \in 1..Chunks |-> NoPiece]]
  /\ pkg = 1 /\ index = 0 /\ room = 0 /\ last_type = DATA_ERR /\ addr = 0
  /\ flash = [i \in Partition |-> [a \in 0..MaxCmds |-> <<>>]]
  /\ host = [wait |-> "idle", k |-> 0, c |-> 0]
  /\ length \in Images
  /\ budget = [cmds |-> MaxCmds, unplugs |-> MaxUnplugs,
               timeouts |-> MaxTimeouts, faults |-> MaxFaults]
  /\ twice = [d \in {"read", "write"} |-> 0]
  /\ late = FALSE /\ gaveUp = FALSE /\ stray = FALSE

-----------------------------------------------------------------------------
\* com_read_data and com_write_data: the operation of the WinUSB device ...
Call ==
  /\ step = "call"
  /\ step' = IF conf THEN "fire" ELSE "get"
  /\ IF conf /\ at \in Reads
       THEN request' = [request EXCEPT !.buf = at, !.pos = 0]
       ELSE UNCHANGED request
  /\ UNCHANGED <<comTaskVars, sem, listed, timer, mark, late, out, in, mem, twice, stray,
                 conf, host, length, budget, gaveUp>>

\* ... and usbd_io_request, which hands the packet to the controller.
Fire ==
  /\ step = "fire" /\ step' = "get"
  /\ IF at \in Reads
     THEN /\ request' = [request EXCEPT !.remain = Size(at)]
          /\ out' = [on |-> conf, buf |-> request.buf, pos |-> request.pos] /\ UNCHANGED in
     ELSE in' = conf /\ UNCHANGED <<request, out>>
  /\ UNCHANGED <<comTaskVars, sem, listed, timer, mark, late, mem, twice, stray,
                 conf, host, length, budget, gaveUp>>

WaitOnly == UNCHANGED <<comTaskVars, late, linkVars, conf, host, length>>

\* sem_get_timeout: a unit that is there is taken ...
Get ==
  /\ step = "get"
  /\ LET d == Dir(at)
     IN  \/ sem[d] > 0 /\ sem' = [sem EXCEPT ![d] = @ - 1] /\ step' = "ok"
         \/ sem[d] = 0 /\ step' = "enlist" /\ UNCHANGED sem
  /\ UNCHANGED <<listed, timer, mark, gaveUp, budget>> /\ WaitOnly

\* ... else the task goes to the wait list, whatever was sent since ...
Enlist ==
  /\ step = "enlist" /\ step' = "listed" /\ listed' = TRUE
  /\ UNCHANGED <<sem, timer, mark, gaveUp, budget>> /\ WaitOnly

\* ... it hangs itself, resumed in between or not ...
Sleep ==
  /\ step = "listed" /\ step' = "hung" /\ timer' = FALSE
  /\ UNCHANGED <<sem, listed, mark, gaveUp, budget>> /\ WaitOnly

\* ... and starts its timer, awake again or not.
StartTimer ==
  /\ step \in {"hung", "early"} /\ timer' = TRUE
  /\ step' = IF step = "hung" THEN "wait" ELSE "back"
  /\ UNCHANGED <<sem, listed, mark, gaveUp, budget>> /\ WaitOnly

\* The timer fires, on the waiting task or on one that goes on.
Timeout ==
  /\ timer /\ timer' = FALSE /\ mark' = TRUE
  /\ budget.timeouts > 0 /\ budget' = [budget EXCEPT !.timeouts = @ - 1]
  /\ step' = IF step = "wait" THEN "back" ELSE step
  /\ UNCHANGED <<sem, listed, gaveUp>> /\ WaitOnly

\* Behind switch_task: -ETIMEDOUT if the mark is there.
Return ==
  /\ step = "back"
  /\ step' = IF mark THEN "failed" ELSE "ok"
  /\ mark' = FALSE /\ listed' = (listed /\ ~mark)
  /\ gaveUp' = (gaveUp \/ (mark /\ at \in Reads))
  /\ UNCHANGED <<sem, timer, budget>> /\ WaitOnly

-----------------------------------------------------------------------------
\* What the com task does with the result of a transfer.
\* Back in com_task_entry only cmd_pkg is left of the buffers: the others are
\* freed, and what a later use of their memory finds there is unknown.
Freed == [b \in Reads |-> IF b = "cmd" THEN mem[b] ELSE [c \in 1..Chunks |-> NoPiece]]

Then(a) ==
  /\ at' = a /\ step' = "call" /\ mem' = IF a = "cmd" THEN Freed ELSE mem
  /\ UNCHANGED <<sem, listed, late, request, out, in, twice, stray, conf, host, length, budget, gaveUp>>
NextTransfer(a) == Then(a) /\ UNCHANGED <<timer, mark>>

\* delay_msec(10) before it, a task_sleep, which stops the timer and takes the
\* mark away.
Later(a) == Then(a) /\ timer' = FALSE /\ mark' = FALSE

Ok(a) == at = a /\ step = "ok"
Keep == UNCHANGED <<pkg, index, room, last_type, addr, flash>>

\* com_task_entry dispatches on the type of the package in cmd_pkg; img_buf may
\* not be had.
Dispatch ==
  /\ Ok("cmd")
  /\ LET p == mem["cmd"][1]
     IN  \/ p.kind = "heart" /\ NextTransfer("heart") /\ Keep
         \/ p.kind = "version" /\ NextTransfer("vack") /\ Keep
         \/ /\ p.kind = "download" /\ NextTransfer("ack1")
            /\ pkg' = p.k /\ room' = length[p.k] /\ index' = p.index
            /\ last_type' = DATA_ERR /\ addr' = 0 /\ UNCHANGED flash
         \/ p.kind \notin {"heart", "version"} /\ Later("cmd") /\ Keep

\* com_get_version sends two packages and waits for the answer.
Version ==
  /\ \/ Ok("vack") /\ NextTransfer("vdata")
     \/ Ok("vdata") /\ NextTransfer("vread")
     \/ Ok("vread") /\ Later("cmd")
     \/ Ok("heart") /\ Later("cmd")
  /\ Keep

\* The error paths: back to com_task_entry, com_download_img frees img_buf.
GiveUp ==
  /\ step = "failed"
  /\ IF at = "cmd" THEN NextTransfer("cmd") ELSE Later("cmd")
  /\ Keep

Acked == Ok("ack1") /\ NextTransfer("img") /\ Keep

\* write_img_to_flash: an index it does not know is written nowhere.
Flashed ==
  IF index \in Partition
    THEN [flash EXCEPT ![index][addr] = [c \in 1..Size("img") |-> mem["img"][c]]]
    ELSE flash

\* Mutant: a repeated package counts as a new one.
write_advances ==
  /\ Ok("img") /\ NextTransfer("ack2")
  /\ flash' = Flashed
  /\ addr' = addr + 1 /\ last_type' = DataType(pkg)
  /\ UNCHANGED <<pkg, index, room>>

\* write_img_to_flash, whose result is ignored, and the address of the next
\* package.
WritePackage ==
  /\ Ok("img") /\ NextTransfer("ack2")
  /\ flash' = Flashed
  /\ IF DataType(pkg) # last_type THEN addr' = addr + 1 /\ last_type' = DataType(pkg)
     ELSE UNCHANGED <<addr, last_type>>
  /\ UNCHANGED <<pkg, index, room>>

\* After the last package the reboot flag is written and the device reboots.
Written ==
  /\ Ok("ack2")
  /\ IF pkg = N THEN NextTransfer("reboot") ELSE Later("tmp")
  /\ Keep

\* The next package takes type, size and end from its own header, and has to
\* name the same partition.
NextPackage ==
  /\ Ok("tmp")
  /\ LET p == mem["tmp"][1]
     IN  \/ /\ p.kind = "download" /\ p.index = index /\ NextTransfer("ack1")
            /\ pkg' = p.k
         \/ /\ p.kind = "download" /\ p.index # index /\ Later("cmd") /\ pkg' = p.k
         \/ p.kind # "download" /\ Later("cmd") /\ UNCHANGED pkg
  /\ UNCHANGED <<index, room, last_type, addr, flash>>

-----------------------------------------------------------------------------
\* What usbd changes when it handles the event of an endpoint.
Link == [step |-> step, sem |-> sem, listed |-> listed, timer |-> timer, late |-> late,
         request |-> request, out |-> out]

\* sem_send of the completion: the task on the wait list is resumed, or the
\* unit counted.
Waiting(d) == Dir(at) = d
Awake(w) == IF w = "hung" THEN "early" ELSE IF w = "wait" THEN "back" ELSE w
Unit(s, d) ==
  IF Waiting(d) /\ s.listed
    THEN [s EXCEPT !.listed = FALSE, !.timer = FALSE, !.step = Awake(@)]
    ELSE [s EXCEPT !.sem[d] = @ + 1,
                   !.late = @ \/ ~(Waiting(d) /\ s.step = "get")]

\* The memory of a buffer is the buffer's: cmd_pkg always, the others while
\* the function they belong to is active.
Live(b) ==
  CASE b = "cmd" -> TRUE
    [] b = "vread" -> at = "vread"
    [] b \in {"img", "tmp"} -> at \in Download

Received(s) == [s.request EXCEPT !.remain = @ - 1, !.pos = @ + 1]
ReceiveOn(s, q) ==
  [s EXCEPT !.request = q, !.out = [on |-> TRUE, buf |-> q.buf, pos |-> q.pos]]

\* Mutants of _data_notify: every packet calls the handler, or the endpoint
\* receives again also behind the last one.
notify_each(s) ==
  LET q == Received(s)
  IN  IF s.request.remain = 0 THEN s
      ELSE IF q.remain = 0 THEN Unit([s EXCEPT !.request = q], "read")
      ELSE Unit(ReceiveOn(s, q), "read")
notify_again(s) ==
  LET q == Received(s)
  IN  IF s.request.remain = 0 THEN s
      ELSE IF q.remain = 0 THEN Unit(ReceiveOn(s, q), "read")
      ELSE ReceiveOn(s, q)

\* _data_notify of the OUT endpoint, READ_FULL, when a packet has come.
data_notify(s) ==
  LET q == Received(s)
  IN  IF s.request.remain = 0 THEN s
      ELSE IF q.remain = 0 THEN Unit([s EXCEPT !.request = q], "read")
      ELSE ReceiveOn(s, q)

\* usbd handles an event once; with what Usb shows of its buffer, never or
\* twice.
Become(s) ==
  /\ step' = s.step /\ sem' = s.sem /\ listed' = s.listed /\ timer' = s.timer /\ late' = s.late
  /\ request' = s.request /\ out' = s.out /\ UNCHANGED mark
Handled(n, d) ==
  /\ n # 1 => budget.faults > 0
  /\ budget' = [budget EXCEPT !.faults = IF n = 1 THEN @ ELSE @ - 1]
  /\ twice' = [twice EXCEPT ![d] = IF n = 2 THEN @ + 1 ELSE @]

\* The controller writes the packet to the buffer it was given.
Arrive(p, n) ==
  LET s == [Link EXCEPT !.out = Off]
  IN  /\ out.on
      /\ IF Live(out.buf) /\ out.pos < Room(out.buf)
           THEN mem' = [mem EXCEPT ![out.buf][out.pos + 1] = p] /\ UNCHANGED stray
           ELSE stray' = TRUE /\ UNCHANGED mem
      /\ Become(CASE n = 0 -> s [] n = 1 -> data_notify(s)
                  [] n = 2 -> data_notify(data_notify(s)))
      /\ Handled(n, "read")
      /\ UNCHANGED <<comTaskVars, in, conf, length, gaveUp>>

-----------------------------------------------------------------------------
\* The host continues with the next package or repeats the last one while the
\* device waits for it, and begins anything else while the device waits for a
\* command; a command in the middle of an image ends it.
MayAsk(p) ==
  \/ p.kind # "download" /\ out.buf \in {"cmd", "tmp"}
  \/ p.kind = "download" /\ p.k = 1 /\ out.buf = "cmd"
  \/ p.kind = "download" /\ host.k > 0 /\ p.k \in {host.k, host.k + 1} /\ out.buf = "tmp"

Answer(kind) ==
  CASE kind = "heart" -> "heart" [] kind = "version" -> "vack" [] kind = "download" -> "ack1"

HostCommand(p, n) ==
  /\ host.wait = "idle" /\ budget.cmds > 0 /\ MayAsk(p)
  /\ Arrive(p, n)
  /\ host' = [wait |-> Answer(p.kind), k |-> p.k, c |-> 0]

HostChunk(n) ==
  /\ host.wait = "data"
  /\ Arrive(Piece("data", host.k, host.c + 1, 0), n)
  /\ host' = IF host.c + 1 = length[host.k] THEN [host EXCEPT !.wait = "ack2"]
             ELSE [host EXCEPT !.c = @ + 1]

HostAnswer(n) ==
  /\ host.wait = "answer"
  /\ Arrive(Piece("ack", 0, 0, 0), n)
  /\ host' = [host EXCEPT !.wait = "idle"]

\* The host takes what the device sends for what it waits for; nothing remains
\* of the request, so each time its event is handled is a completion.
HostTakes(n) ==
  /\ in /\ host.wait \in {"heart", "vack", "vdata", "ack1", "ack2"}
  /\ in' = FALSE
  /\ Become(CASE n = 0 -> Link [] n = 1 -> Unit(Link, "write")
              [] n = 2 -> Unit(Unit(Link, "write"), "write"))
  /\ Handled(n, "write")
  /\ host' = [host EXCEPT !.wait =
       CASE @ = "vack" -> "vdata" [] @ = "vdata" -> "answer" [] @ = "ack1" -> "data" [] OTHER -> "idle"]
  /\ UNCHANGED <<comTaskVars, mem, stray, conf, length, gaveUp>>

HostGivesUp ==
  /\ host.wait # "idle" /\ budget.unplugs > 0
  /\ budget' = [budget EXCEPT !.unplugs = @ - 1]
  /\ host' = [wait |-> "idle", k |-> 0, c |-> 0]
  /\ UNCHANGED <<comTaskVars, waitVars, linkVars, conf, length, gaveUp>>

Unplug ==
  /\ conf /\ budget.unplugs > 0
  /\ budget' = [budget EXCEPT !.unplugs = @ - 1]
  /\ conf' = FALSE /\ out' = Off /\ in' = FALSE
  /\ host' = [wait |-> "idle", k |-> 0, c |-> 0]
  /\ UNCHANGED <<comTaskVars, waitVars, request, mem, twice, stray, length, gaveUp>>

Configure ==
  /\ ~conf /\ conf' = TRUE
  /\ UNCHANGED <<comTaskVars, waitVars, linkVars, host, length, budget, gaveUp>>

-----------------------------------------------------------------------------
ComStep ==
  \/ Call \/ Fire \/ Get \/ Enlist \/ Sleep \/ StartTimer \/ Return
  \/ Dispatch \/ Version \/ GiveUp \/ Acked \/ WritePackage \/ Written \/ NextPackage

Commands ==
  {Piece("heart", 0, 0, 0), Piece("version", 0, 0, 0)}
    \cup {Piece("download", k, 0, i) : k \in 1..N, i \in Index}

HostStep ==
  \/ \E n \in 0..2 :
       HostChunk(n) \/ HostAnswer(n) \/ HostTakes(n) \/ \E p \in Commands : HostCommand(p, n)
  \/ HostGivesUp \/ Unplug \/ Configure

ComNext == ~stray /\ at # "reboot" /\ (ComStep \/ Timeout \/ HostStep)

ComSpec == ComInit /\ [][ComNext]_comVars

-----------------------------------------------------------------------------
\* When the device reboots into a downloaded image, flash holds its packages in
\* their places, whatever the host repeated or began again and whatever the
\* device gave up: a repeated package is written behind its place and
\* overwritten by the next (app/keyboard/com/com_updata.c:93-98).  What voids
\* it: a partition that is not known, which nobody notices
\* (com_updata.c:43-45, 93), a unit that was counted behind the test of
\* sem_get_timeout or after it, which answers the next read at once
\* (app/keyboard/com/com.c:45-57), and an event that was handled twice.
ImageInPlace ==
  at = "reboot" /\ index \in Partition =>
    \/ late \/ twice["read"] > 0 \/ twice["write"] > 0
    \/ \A k \in 1..N : flash[index][k - 1] = Image(k)

\* Units that were left do not pile up: beside the unit of the transfer the
\* task is about to wait for there is one at most in each direction, however
\* often the task gives up (com.c:28-37), and one for each completion of a
\* write that was handled twice.
UnitsBounded ==
  ~stray => \A d \in {"read", "write"} :
    sem[d] <= (IF Waiting(d) /\ step = "get" THEN 2 ELSE 1)
                + (IF d = "write" THEN twice[d] ELSE 0)

\* The controller writes into the buffer it was given for, and while it is the
\* buffer of the com task, unless a read has timed out: then img_buf is freed
\* and the stack frame left with the endpoint still receiving
\* (com_updata.c:90-126); or a later package is longer than the first, for
\* which img_buf was allocated (com_updata.c:77, 112), or an event was handled
\* twice.
LongerLater == \E k \in 2..N : length[k] > length[1]
NoStray == stray => gaveUp \/ LongerLater \/ twice["read"] > 0

=============================================================================
