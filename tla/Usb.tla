-------------------------------- MODULE Usb --------------------------------
(***************************************************************************)
(* The USB device core (drivers/usb/device/core/core.c): events posted by  *)
(* the controller's handler (arch/arm/board/keyboard/arch_usb.c), the      *)
(* usbd task that serves them, control transfers on endpoint 0, whose      *)
(* packets the handler sends on, and the OUT endpoint of the HID function  *)
(* (drivers/usb/device/class/hid.c) with its buffer.                       *)
(*                                                                         *)
(* usbd_event_signal sends the address of one static buffer with every     *)
(* message, so the queue is a number of messages and the buffer holds the  *)
(* event posted last; the task copies it byte by byte with interrupts on,  *)
(* here in two parts.  Bytes of a descriptor are known by their offset.    *)
(* msg_q_recv looks at the queue and hangs in two steps and takes a        *)
(* message under the queue's mutex.                                        *)
(* The host keeps to the protocol: it may reset the bus at any time but    *)
(* sends no SETUP while it waits for the answer to another.                *)
(***************************************************************************)
EXTENDS Integers, Sequences, FiniteSetsExt

CONSTANTS
  Mps,          \* the packet size of endpoint 0
  Blocks,       \* CONFIG_MAX_MSG_POOL
  Desc,         \* the lengths of the descriptors
  Wanted,       \* the lengths a host asks for, wLength
  MaxSetups,    \* bounds: the SETUP packets, bus resets and
  MaxResets,    \* data packets of a behaviour
  MaxData

ASSUME UsbAssumption ==
  /\ Mps \in Nat \ {0} /\ Blocks \in Nat \ {0}
  /\ Desc \subseteq Nat \ {0} /\ Wanted \subseteq Nat \ {0}
  /\ MaxSetups \in Nat /\ MaxResets \in Nat /\ MaxData \in Nat

VARIABLES
  queue,        \* how many messages are in usb_mq
  buf,          \* the static buffer of usbd_event_signal
  msg,          \* the copy of it the task works on, or has worked on last
  pc,           \* where the task is
  state,        \* device->state
  stage, req,   \* dcd->stage and ep0.request
  ptr, owned,   \* ep_out->buffer of the HID function is not NULL; the memory
                \* it points to is allocated
  in0, out0,    \* the controller: the packet endpoint 0 has to send, whether it
  armed,        \* may receive one, and whether the HID OUT endpoint may
  phase, asked, \* the host: the stage of its control transfer, the request,
  got, view,    \* the bytes it has received, the device state it believes in
  left,         \* bounds: the packets and resets still to come
  last,         \* history: the event posted last
  overrun,      \* history: an event was posted before the one posted before
                \* it had been copied
  clash         \* history: an event was posted while the task held the mutex
                \* of the queue

workVars == <<msg, state, ptr, owned>>
taskVars == <<pc, workVars>>
eventVars == <<queue, buf, last, overrun, clash>>
ep0Vars == <<stage, req>>
wireVars == <<in0, out0, armed>>
hostVars == <<phase, asked, got, view, left>>
usbVars == <<taskVars, eventVars, ep0Vars, wireVars, hostVars>>

Min2(a, b) == IF a < b THEN a ELSE b

Request ==
       [kind : {"desc"}, size : Desc, want : Wanted]
  \cup [kind : {"address", "config", "deconfig", "bad", "report"}, size : {0}, want : {0}]
Packet(n) == [kind |-> "packet", size |-> n, want |-> 0]
Event == [type : {"reset", "setup", "ep0_out", "data"},
          content : Request \cup {Packet(0), Packet(1)}]
NoEvent == [type |-> "reset", content |-> Packet(0)]

\* A packet endpoint 0 has to send: its bytes, none, or a STALL.
Data(at, n) == [what |-> "data", at |-> at, len |-> n]
Nothing == [what |-> "nothing", at |-> 0, len |-> 0]
Stall == [what |-> "stall", at |-> 0, len |-> 0]
Status == Data(0, 0)
Bytes(p) == [k \in 1..p.len |-> p.at + k]

MaxDesc == Max(Desc)

UsbTypeOK ==
  /\ queue \in 0..Blocks /\ buf \in Event /\ msg \in Event /\ last \in Event
  /\ pc \in {"recv", "hang", "asleep", "lock", "take", "content", "handle", "transmit"}
  /\ state \in {"notattached", "address", "configured"}
  /\ stage \in {"idle", "din", "dout", "status_out"}
  /\ req \in [size : 0..MaxDesc, remain : (-Mps)..MaxDesc, at : 0..(MaxDesc + Mps)]
  /\ ptr \in BOOLEAN /\ owned \in BOOLEAN /\ out0 \in BOOLEAN /\ armed \in BOOLEAN
  /\ in0 \in [what : {"data", "nothing", "stall"}, at : 0..(MaxDesc + Mps), len : 0..Mps]
  /\ phase \in {"idle", "in", "out", "status_in", "status_out"}
  /\ asked \in Request /\ view \in {"default", "address", "configured"}
  /\ overrun \in BOOLEAN /\ clash \in BOOLEAN

UsbInit ==
  /\ queue = 0 /\ buf = NoEvent /\ msg = NoEvent /\ last = NoEvent
  /\ pc = "recv" /\ state = "notattached"
  /\ stage = "idle" /\ req = [size |-> 0, remain |-> 0, at |-> 0]
  /\ ptr = FALSE /\ owned = FALSE
  /\ in0 = Nothing /\ out0 = FALSE /\ armed = FALSE
  /\ phase = "idle" /\ asked = [kind |-> "bad", size |-> 0, want |-> 0] /\ got = <<>> /\ view = "default"
  /\ left = [setups |-> MaxSetups, resets |-> MaxResets, data |-> MaxData]
  /\ overrun = FALSE /\ clash = FALSE

-----------------------------------------------------------------------------
\* msg_q_send resumes the task if the queue has taken the message; it does not
\* see that a task which is running is about to hang.
WakeTask == pc' = IF pc = "asleep" /\ queue < Blocks THEN "lock" ELSE pc
Signalled(e) ==
  /\ last' = e
  /\ overrun' = (overrun \/ queue > 0 \/ pc = "content")
  /\ clash' = (clash \/ pc = "take")
  /\ WakeTask

\* Mutant: the buffer is filled only when the queue takes the message.
signal_if_queued(e) ==
  /\ IF queue < Blocks THEN queue' = queue + 1 /\ buf' = e ELSE UNCHANGED <<queue, buf>>
  /\ Signalled(e)

\* The static buffer takes the event, the queue a message if it is not full.
usbd_event_signal(e) ==
  /\ buf' = e
  /\ queue' = Min2(queue + 1, Blocks)
  /\ Signalled(e)

Post(type, content) == usbd_event_signal([type |-> type, content |-> content])

\* Mutants: the handler leaves the buffer, or forgets the empty packet behind
\* a transfer of full ones.
in_keeps_buffer ==
  LET remain == req.remain - Mps
  IN  \/ stage # "din" /\ in0' = Nothing /\ UNCHANGED ep0Vars
      \/ /\ stage = "din" /\ remain > 0
         /\ req' = [req EXCEPT !.remain = remain]
         /\ in0' = Data(req.at, Min2(remain, Mps)) /\ UNCHANGED stage
      \/ /\ stage = "din" /\ remain <= 0
         /\ req' = [req EXCEPT !.remain = remain] /\ stage' = "status_out" /\ in0' = Nothing
in_no_zlp ==
  LET remain == req.remain - Mps
  IN  \/ stage # "din" /\ in0' = Nothing /\ UNCHANGED ep0Vars
      \/ /\ stage = "din" /\ remain > 0
         /\ req' = [req EXCEPT !.remain = remain, !.at = @ + Mps]
         /\ in0' = Data(req.at + Mps, Min2(remain, Mps)) /\ UNCHANGED stage
      \/ /\ stage = "din" /\ remain <= 0
         /\ req' = [req EXCEPT !.remain = remain] /\ stage' = "status_out" /\ in0' = Nothing

\* The controller's handler, when endpoint 0 has sent a packet.
usbd_ep0_in_handler ==
  LET remain == req.remain - Mps
  IN  \/ stage # "din" /\ in0' = Nothing /\ UNCHANGED ep0Vars
      \/ /\ stage = "din" /\ remain > 0
         /\ req' = [req EXCEPT !.remain = remain, !.at = @ + Mps]
         /\ in0' = Data(req.at + Mps, Min2(remain, Mps)) /\ UNCHANGED stage
      \/ /\ stage = "din" /\ remain = 0 /\ req.size > 0
         /\ req' = [req EXCEPT !.remain = remain, !.size = 0]
         /\ in0' = Data(0, 0) /\ UNCHANGED stage
      \/ /\ stage = "din" /\ remain <= 0 /\ (remain = 0 => req.size = 0)
         /\ req' = [req EXCEPT !.remain = remain]
         /\ stage' = "status_out" /\ in0' = Nothing

-----------------------------------------------------------------------------
\* The host and the controller; each step is an interrupt.
May(kind) ==
  /\ kind = "address" => view # "configured"
  /\ kind \in {"config", "deconfig"} => view # "default"
  /\ kind = "report" => view = "configured"

\* The stage that follows the SETUP.
PhaseOf(r) ==
  IF r.kind = "desc" THEN "in" ELSE IF r.kind = "report" THEN "out" ELSE "status_in"

HostSetup(r) ==
  /\ phase = "idle" /\ left.setups > 0 /\ May(r.kind)
  /\ left' = [left EXCEPT !.setups = @ - 1]
  /\ asked' = r /\ got' = <<>> /\ UNCHANGED view
  /\ phase' = PhaseOf(r)
  /\ in0' = Nothing /\ out0' = FALSE /\ UNCHANGED armed
  /\ Post("setup", r)
  /\ UNCHANGED <<workVars, ep0Vars>>

\* A data packet; a short one or the last byte wanted ends the data stage.
HostIn ==
  /\ phase = "in" /\ in0.what = "data"
  /\ got' = got \o Bytes(in0)
  /\ phase' = IF in0.len < Mps \/ Len(got') >= asked.want THEN "status_out" ELSE "in"
  /\ usbd_ep0_in_handler
  /\ UNCHANGED <<taskVars, eventVars, out0, armed, asked, view, left>>

Believe ==
  IF asked.kind = "config" THEN "configured"
  ELSE IF asked.kind \in {"address", "deconfig"} THEN "address" ELSE view

\* The empty packet that ends a transfer without data or with data out.
HostStatusIn ==
  /\ phase = "status_in" /\ in0.what = "data"
  /\ phase' = "idle" /\ view' = IF in0.len = 0 THEN Believe ELSE view
  /\ usbd_ep0_in_handler
  /\ UNCHANGED <<taskVars, eventVars, out0, armed, asked, got, left>>

HostStalled ==
  /\ phase \in {"in", "status_in"} /\ in0 = Stall
  /\ phase' = "idle" /\ in0' = Nothing
  /\ UNCHANGED <<taskVars, eventVars, ep0Vars, out0, armed, asked, got, view, left>>

HostOut ==
  /\ phase = "out" /\ out0
  /\ phase' = "status_in" /\ out0' = FALSE
  /\ Post("ep0_out", Packet(1))
  /\ UNCHANGED <<workVars, ep0Vars, in0, armed, asked, got, view, left>>

HostStatusOut ==
  /\ phase = "status_out"
  /\ phase' = "idle" /\ out0' = FALSE /\ got' = <<>>
  /\ Post("ep0_out", Packet(0))
  /\ UNCHANGED <<workVars, ep0Vars, in0, armed, asked, view, left>>

HostData ==
  /\ view = "configured" /\ armed /\ left.data > 0
  /\ left' = [left EXCEPT !.data = @ - 1]
  /\ armed' = FALSE
  /\ Post("data", Packet(1))
  /\ UNCHANGED <<workVars, ep0Vars, in0, out0, phase, asked, got, view>>

HostReset ==
  /\ left.resets > 0 /\ left' = [left EXCEPT !.resets = @ - 1]
  /\ phase' = "idle" /\ view' = "default" /\ got' = <<>>
  /\ in0' = Nothing /\ out0' = FALSE /\ armed' = FALSE
  /\ Post("reset", Packet(0))
  /\ UNCHANGED <<workVars, ep0Vars, asked>>

-----------------------------------------------------------------------------
\* The usbd task.  msg_q_recv looks at the queue ...
Test ==
  /\ pc = "recv"
  /\ pc' = IF queue > 0 THEN "lock" ELSE "hang"
  /\ UNCHANGED <<workVars, eventVars, ep0Vars, wireVars, hostVars>>

\* ... and hangs if it found it empty, though an event may have come since ...
Hang ==
  /\ pc = "hang" /\ pc' = "asleep"
  /\ UNCHANGED <<workVars, eventVars, ep0Vars, wireVars, hostVars>>

\* ... it locks the mutex and looks again ...
Lock ==
  /\ pc = "lock"
  /\ pc' = IF queue > 0 THEN "take" ELSE "recv"
  /\ UNCHANGED <<workVars, eventVars, ep0Vars, wireVars, hostVars>>

\* ... and takes a message; the task copies the event, the type ...
Receive ==
  /\ pc = "take"
  /\ queue' = queue - 1
  /\ msg' = [type |-> buf.type, content |-> Packet(0)] /\ pc' = "content"
  /\ UNCHANGED <<buf, last, overrun, clash, state, ptr, owned, ep0Vars, wireVars, hostVars>>

\* ... and the rest.
Copy ==
  /\ pc = "content"
  /\ msg' = [msg EXCEPT !.content = buf.content] /\ pc' = "handle"
  /\ UNCHANGED <<state, ptr, owned, eventVars, ep0Vars, wireVars, hostVars>>

Handle(type) == pc = "handle" /\ msg.type = type /\ UNCHANGED msg
Done == pc' = "recv"

\* Mutant: the pointer to the freed buffer stays.
disable_keeps_ptr ==
  IF state \in {"address", "configured"} /\ ptr THEN owned' = FALSE /\ UNCHANGED ptr
  ELSE UNCHANGED <<ptr, owned>>

\* FUNC_DISABLE of the HID function.
function_disable ==
  IF state \in {"address", "configured"} THEN ptr' = FALSE /\ owned' = FALSE
  ELSE UNCHANGED <<ptr, owned>>

HandleReset ==
  /\ Handle("reset") /\ Done
  /\ function_disable
  /\ state' = "notattached"
  /\ UNCHANGED <<eventVars, ep0Vars, wireVars, hostVars>>

\* The copy may have the type of one event and the content of another: a
\* SETUP then reads as some request, another event may find its endpoint or
\* not.
Torn == (msg.type = "setup") # (msg.content.kind # "packet")
Asks(r) == Handle("setup") /\ (Torn \/ r = msg.content)

\* usbd_ep0_write, before it hands the packet to the controller.
GetDescriptor(r) ==
  /\ Asks(r) /\ r.kind = "desc"
  /\ LET size == Min2(r.size, r.want)
     IN  req' = [size |-> size, remain |-> size, at |-> 0]
  /\ stage' = "din" /\ pc' = "transmit"
  /\ UNCHANGED <<state, ptr, owned, eventVars, wireVars, hostVars>>

Transmit ==
  /\ pc = "transmit" /\ Done
  /\ in0' = Data(req.at, Min2(req.size, Mps))
  /\ UNCHANGED <<msg, state, ptr, owned, eventVars, ep0Vars, out0, armed, hostVars>>

SetAddress(r) ==
  /\ Asks(r) /\ r.kind = "address" /\ Done
  /\ in0' = Status /\ state' = "address"
  /\ UNCHANGED <<ptr, owned, eventVars, ep0Vars, out0, armed, hostVars>>

\* Mutant: the function is enabled before its endpoints.
enable_first == ptr' = TRUE /\ owned' = (owned \/ ~ptr) /\ armed' = FALSE

\* The endpoints are disabled and enabled, then the function, which starts to
\* receive.
function_enable == ptr' = TRUE /\ owned' = (owned \/ ~ptr) /\ armed' = TRUE

SetConfig(r) ==
  /\ Asks(r) /\ Done
  /\ \/ r.kind = "bad" /\ in0' = Stall /\ UNCHANGED <<state, ptr, owned, armed>>
     \/ r.kind = "deconfig" /\ in0' = Status /\ state' = "address" /\ UNCHANGED <<ptr, owned, armed>>
     \/ r.kind = "config" /\ in0' = Status /\ state' = "configured" /\ function_enable
  /\ UNCHANGED <<eventVars, ep0Vars, out0, hostVars>>

\* SET_REPORT of the HID function: usbd_ep0_read of one packet.
SetReport(r) ==
  /\ Asks(r) /\ r.kind = "report" /\ Done
  /\ req' = [req EXCEPT !.remain = 1, !.at = 0] /\ stage' = "dout" /\ out0' = TRUE
  /\ UNCHANGED <<state, ptr, owned, eventVars, in0, armed, hostVars>>

\* A request that asks for nothing the core or its functions know.
SetupIgnored ==
  /\ Handle("setup") /\ Torn /\ Done
  /\ UNCHANGED <<state, ptr, owned, eventVars, ep0Vars, wireVars, hostVars>>

\* _ep0_out_notify: data end a control read and call back, an empty packet
\* changes nothing.
Ep0Out ==
  /\ Handle("ep0_out") /\ Done
  /\ \/ /\ ~Torn /\ req.remain # 0 /\ msg.content.size > 0
        /\ req' = [req EXCEPT !.remain = 0] /\ in0' = Status /\ UNCHANGED <<stage, out0>>
     \/ /\ Torn \/ req.remain = 0 \/ msg.content.size = 0
        /\ UNCHANGED <<ep0Vars, in0, out0>>
     \/ /\ Torn /\ req.remain # 0
        /\ stage' = "dout" /\ out0' = TRUE /\ UNCHANGED <<req, in0>>
  /\ UNCHANGED <<state, ptr, owned, eventVars, armed, hostVars>>

\* _data_notify and _ep_out_handler of the HID function, which receives again.
DataNotify ==
  /\ Handle("data") /\ Done
  /\ \/ state = "configured" /\ armed' = TRUE
     \/ (state # "configured" \/ Torn) /\ UNCHANGED armed
  /\ UNCHANGED <<state, ptr, owned, eventVars, ep0Vars, in0, out0, hostVars>>

-----------------------------------------------------------------------------
TaskStep ==
  \/ Test \/ Hang \/ Lock \/ Receive \/ Copy
  \/ HandleReset \/ Transmit \/ SetupIgnored \/ Ep0Out \/ DataNotify
  \/ \E r \in Request :
       GetDescriptor(r) \/ SetAddress(r) \/ SetConfig(r) \/ SetReport(r)

HostGoesOn == HostIn \/ HostStatusIn \/ HostStalled \/ HostOut \/ HostStatusOut

UsbNext ==
  \/ \E r \in Request : HostSetup(r)
  \/ HostGoesOn \/ HostData \/ HostReset \/ TaskStep

\* The task is the most urgent one that has work, and the host polls.
UsbSpec == UsbInit /\ [][UsbNext]_usbVars /\ WF_usbVars(TaskStep) /\ WF_usbVars(HostGoesOn)

-----------------------------------------------------------------------------
\* The task has handled what it has taken.
Resting == pc \in {"recv", "hang", "asleep"}

\* Whatever was overwritten in the static buffer, also while the task copied
\* it and while the queue was full, the event posted last is handled, and
\* handled whole, before the task finds the queue empty
\* (drivers/usb/device/core/core.c:2041-2119); unless a handler posts while the
\* task holds the mutex of the queue.
LatestHandled == (queue = 0 /\ Resting /\ ~clash) => msg = last

\* The HID function's pointer is NULL or its memory allocated, across resets,
\* repeated configurations and events that are handled twice or never; unless
\* events overran each other a configured host never sends into memory that
\* was freed (drivers/usb/device/class/hid.c:509-558).
BufferOwned ==
  /\ ptr = owned
  /\ state = "configured" => owned
  /\ (view = "configured" /\ armed /\ ~overrun) => owned

\* Unless events overran each other, what the host has received are the bytes
\* of the descriptor in order, and all it asked for when the data stage ends,
\* although the task starts the transfer and the handler sends it on
\* (core.c:1842-1882, 1980-2005).
ExactData ==
  (~overrun /\ asked.kind = "desc") =>
    LET size == Min2(asked.size, asked.want)
    IN  /\ phase = "in" => got = [k \in 1..Len(got) |-> k] /\ Len(got) <= size
        /\ phase = "status_out" => got = [k \in 1..size |-> k]

\* Unless events overran each other, a configured host finds the HID OUT
\* endpoint ready when no transfer is going on and the task has nothing left
\* to do: each packet makes the function receive again (hid.c:397-401), and a
\* configuration starts it (core.c:373-392).
EndpointServed ==
  (view = "configured" /\ phase = "idle" /\ queue = 0 /\ Resting /\ ~overrun) => armed

\* Unless events overrun each other or the task goes to sleep beside one, which
\* its msg_q_recv allows, every control transfer of the host ends, that of full
\* packets only with an empty one behind them if the host wants more
\* (core.c:1866-1878).
BesideEvent == pc = "asleep" /\ queue > 0
Answered == (phase # "idle") ~> (phase = "idle" \/ overrun \/ BesideEvent)

=============================================================================
