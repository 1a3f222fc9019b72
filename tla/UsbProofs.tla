----------------------------- MODULE UsbProofs -----------------------------
(***************************************************************************)
(* The USB stack: first the device core with its HID function (Usb), then  *)
(* the transfers of the com task over the WinUSB function (Com), for       *)
(* images of any size and any number of commands, unplugs and faults.      *)
(***************************************************************************)
EXTENDS Usb, Com, TLAPS

LEMMA PacketEvents ==
  /\ NoEvent \in Event
  /\ \A type \in {"reset", "setup", "ep0_out", "data"} :
       /\ \A r \in Request : [type |-> type, content |-> r] \in Event
       /\ [type |-> type, content |-> Packet(0)] \in Event
       /\ [type |-> type, content |-> Packet(1)] \in Event
BY DEF Event, NoEvent

LEMMA EventIsRecord ==
  ASSUME NEW e \in Event
  PROVE  /\ e = [type |-> e.type, content |-> e.content]
         /\ e.type \in {"reset", "setup", "ep0_out", "data"}
         /\ \A c : [e EXCEPT !.content = c] = [type |-> e.type, content |-> c]
BY DEF Event

\* What the task has copied, or still has to copy, of the event posted last.
Newest ==
  /\ queue \in Nat /\ buf = last /\ buf \in Event /\ msg \in Event
  /\ pc = "take" => queue > 0
  /\ (queue = 0 /\ pc = "content") => msg.type = buf.type
  /\ (queue = 0 /\ pc # "content") => msg = buf

LEMMA NewestInit == UsbInit => Newest
BY PacketEvents DEF UsbInit, Newest

\* A posted event wakes the task or leaves it where it is.
PcKept == pc' = pc \/ (pc = "asleep" /\ pc' = "lock")

LEMMA PostKeepsPc ==
  ASSUME NEW e, usbd_event_signal(e)
  PROVE  PcKept
BY DEF usbd_event_signal, Signalled, WakeTask, PcKept

LEMMA PostKeepsNewest ==
  ASSUME Newest, NEW e \in Event, usbd_event_signal(e), UNCHANGED msg
  PROVE  Newest'
<1>1. queue' \in Nat \ {0}
  BY UsbAssumption DEF usbd_event_signal, Newest, Min2
<1> QED BY <1>1 DEF usbd_event_signal, Signalled, Newest

\* Every packet of the host that makes the handler post an event.
LEMMA HostKeepsNewest ==
  ASSUME Newest,
         (\E r \in Request : HostSetup(r)) \/ HostGoesOn \/ HostData \/ HostReset
  PROVE  Newest'
<1> USE DEF taskVars, workVars, eventVars
<1>1. ASSUME NEW r \in Request, HostSetup(r) PROVE Newest'
  BY <1>1, PacketEvents, PostKeepsNewest DEF HostSetup, Post
<1>2. ASSUME HostOut \/ HostStatusOut \/ HostData \/ HostReset PROVE Newest'
  BY <1>2, PacketEvents, PostKeepsNewest DEF HostOut, HostStatusOut, HostData, HostReset, Post
<1>3. ASSUME HostIn \/ HostStatusIn \/ HostStalled PROVE Newest'
  BY <1>3 DEF HostIn, HostStatusIn, HostStalled, Newest
<1> QED BY <1>1, <1>2, <1>3 DEF HostGoesOn

\* The task copies the buffer or works on its copy.
LEMMA TaskKeepsNewest ==
  ASSUME Newest, TaskStep
  PROVE  Newest'
<1>6. CASE Test \/ Hang \/ Lock
  BY <1>6 DEF Test, Hang, Lock, Newest, workVars, eventVars
<1>1. CASE Receive
  <2>1. msg'.type = buf.type /\ msg' \in Event
    BY <1>1, EventIsRecord, PacketEvents DEF Receive, Newest
  <2> QED BY <1>1, <2>1 DEF Receive, Newest
<1>2. CASE Copy
  <2>1. msg' = [type |-> msg.type, content |-> buf.content]
    BY <1>2, EventIsRecord DEF Copy, Newest
  <2>2. msg' \in Event
    BY <2>1 DEF Newest, Event
  <2>3. queue = 0 => msg' = buf
    BY <1>2, <2>1, EventIsRecord DEF Copy, Newest
  <2> QED BY <1>2, <2>2, <2>3 DEF Copy, Newest, eventVars
<1>3. ASSUME pc # "content", pc' \notin {"content", "take"}, UNCHANGED msg, UNCHANGED eventVars
      PROVE  Newest'
  BY <1>3 DEF Newest, eventVars
<1>4. CASE HandleReset \/ Transmit \/ SetupIgnored \/ Ep0Out \/ DataNotify
  BY <1>3, <1>4 DEF HandleReset, Transmit, SetupIgnored, Ep0Out, DataNotify, Handle, Done
<1>5. ASSUME NEW r \in Request, GetDescriptor(r) \/ SetAddress(r) \/ SetConfig(r) \/ SetReport(r)
      PROVE  Newest'
  BY <1>3, <1>5 DEF GetDescriptor, SetAddress, SetConfig, SetReport, Asks, Handle, Done
<1> QED BY <1>1, <1>2, <1>4, <1>5, <1>6 DEF TaskStep

(***************************************************************************)
(* When the task has nothing left to do it has handled the event posted    *)
(* last, and the whole of it, for every length of the queue, every set of  *)
(* descriptors and however many events were overwritten                    *)
(* (drivers/usb/device/core/core.c:2041-2119).                             *)
(***************************************************************************)
THEOREM LastEventHandled == UsbSpec => []LatestHandled
<1>1. Newest /\ [UsbNext]_usbVars => Newest'
  <2> SUFFICES ASSUME Newest, [UsbNext]_usbVars PROVE Newest'
    OBVIOUS
  <2>1. CASE UsbNext
    BY <2>1, HostKeepsNewest, TaskKeepsNewest DEF UsbNext
  <2>2. CASE UNCHANGED usbVars
    BY <2>2 DEF usbVars, taskVars, workVars, eventVars, Newest
  <2> QED BY <2>1, <2>2
<1>2. Newest => LatestHandled
  BY DEF Newest, LatestHandled, Resting
<1> QED BY NewestInit, <1>1, <1>2, PTL DEF UsbSpec

-----------------------------------------------------------------------------
(***************************************************************************)
(* Control transfers and the HID function, as long as no event overran     *)
(* another.                                                                *)
(***************************************************************************)

\* Events that are all of a piece, as they are posted.
Whole ==
       [type : {"setup"}, content : Request]
  \cup [type : {"reset", "ep0_out", "data"}, content : {Packet(0), Packet(1)}]

\* An event of that type is queued, or in the hands of the task.
Queued(type) == queue = 1 /\ buf.type = type
Handed(type) == pc \in {"content", "handle"} /\ msg.type = type
Carried == IF pc = "content" THEN buf.content ELSE msg.content

\* A bus reset that has ended the transfer is queued behind what the task does.
Aborted == queue = 1 /\ buf.type = "reset" /\ phase = "idle"

Orderly ==
  /\ queue \in {0, 1} /\ (queue = 1 => pc # "content")
  /\ buf \in Whole /\ asked \in Request
  /\ pc = "content" => msg.type = buf.type
  /\ pc = "handle" => msg \in Whole

Fresh == in0 = Nothing /\ ~out0 /\ got = <<>> /\ phase = PhaseOf(asked)

\* While the task has a SETUP to handle, it is that of the transfer, nothing
\* of which has been done.
SetupWaits ==
  /\ Queued("setup") => buf.content = asked /\ Fresh /\ ~Handed("setup")
  /\ Handed("setup") => Aborted \/ (Carried = asked /\ Fresh)
Setting == Queued("setup") \/ Handed("setup")

\* The data of a report wait for the task that answers them, once.
DataOut == Handed("ep0_out") /\ Carried # Packet(0)
Unanswered == phase = "status_in" /\ asked.kind = "report" /\ in0 = Nothing
OutWaits ==
  /\ Queued("ep0_out") /\ buf.content # Packet(0) => Unanswered /\ ~DataOut
  /\ DataOut => Aborted \/ Unanswered

Transmits == pc = "transmit" => Aborted \/ (phase = "in" /\ ~Queued("setup"))

Length == Min2(asked.size, asked.want)
Sent(n) == [k \in 1..n |-> k]
Begun == in0 = Nothing /\ got = <<>> /\ req = [size |-> Length, remain |-> Length, at |-> 0]
Sending ==
  /\ req.at \in Nat /\ Length - req.at \in Nat \ {0}
  /\ req = [size |-> Length, remain |-> Length - req.at, at |-> req.at]
  /\ got = Sent(req.at) /\ in0 = Data(req.at, Min2(req.remain, Mps))
EmptyLast ==
  /\ req.remain = 0 /\ req.size = 0
  /\ got = Sent(Length) /\ Length < asked.want /\ in0 = Status
Reading ==
  phase = "in" =>
    /\ asked.kind = "desc"
    /\ ~Setting =>
         /\ stage = "din"
         /\ IF pc = "transmit" THEN Begun ELSE Sending \/ EmptyLast
ReadDone ==
  phase = "status_out" => asked.kind = "desc" /\ got = Sent(Length) /\ ~Setting

PhaseFits ==
  /\ phase = "out" => asked.kind = "report" /\ in0 = Nothing
  /\ phase = "status_in" =>
       /\ asked.kind # "desc" /\ (in0.what = "data" => in0.len = 0)
       /\ asked.kind = "address" => view # "configured"

ResetFirst ==
  Queued("reset") \/ Handed("reset") =>
    view = "default" /\ (phase = "idle" \/ Queued("setup"))

DataWaits == Queued("data") \/ Handed("data")
Working == state = "configured" /\ (armed \/ DataWaits)
Answering(kind) == phase = "status_in" /\ asked.kind = kind /\ in0.what = "data"
Configured ==
  /\ Answering("config") => owned /\ Working
  /\ view = "configured" => owned /\ (Working \/ Answering("deconfig"))

Protocol ==
  /\ Orderly /\ SetupWaits /\ OutWaits /\ Transmits /\ Reading /\ ReadDone
  /\ PhaseFits /\ ResetFirst /\ Configured

LEMMA PacketFacts ==
  /\ Packet(0) # Packet(1)
  /\ \A n : Packet(n).kind = "packet" /\ Packet(n).size = n
BY DEF Packet

LEMMA RequestFacts ==
  ASSUME NEW r \in Request
  PROVE  /\ r.kind \in {"desc", "address", "config", "deconfig", "bad", "report"}
         /\ r.kind = "desc" => r.size \in Nat \ {0} /\ r.want \in Nat \ {0}
BY UsbAssumption DEF Request

LEMMA WholeFacts ==
  ASSUME NEW e \in Whole
  PROVE  \/ e.type = "setup" /\ e.content \in Request
         \/ e.type \in {"reset", "ep0_out", "data"} /\ e.content \in {Packet(0), Packet(1)}
BY DEF Whole

LEMMA WholeEvents ==
  /\ \A r \in Request : [type |-> "setup", content |-> r] \in Whole
  /\ \A type \in {"reset", "ep0_out", "data"}, n \in {0, 1} :
       [type |-> type, content |-> Packet(n)] \in Whole
BY DEF Whole

LEMMA WholeIsRecord ==
  ASSUME NEW e \in Whole
  PROVE  e = [type |-> e.type, content |-> e.content]
BY DEF Whole

\* A posted event that overran none found the queue empty and no copy going on.
LEMMA Posted ==
  ASSUME Orderly, NEW e, usbd_event_signal(e), ~overrun'
  PROVE  queue = 0 /\ pc # "content" /\ queue' = 1 /\ buf' = e /\ PcKept
<1>1. ~(queue > 0) /\ pc # "content"
  BY Zenon DEF usbd_event_signal, Signalled
<1>2. queue = 0
  BY <1>1 DEF Orderly
<1> QED BY <1>1, <1>2, UsbAssumption, PostKeepsPc DEF usbd_event_signal, Min2

\* The copy the task works on is that of one event.
LEMMA NotTorn ==
  ASSUME Orderly, pc = "handle"
  PROVE  /\ ~Torn /\ Carried = msg.content
         /\ msg.type = "setup" => msg.content \in Request
         /\ msg.type # "setup" => msg.content \in {Packet(0), Packet(1)}
<1>1. msg \in Whole
  BY DEF Orderly
<1>2. \A r \in Request : r.kind # "packet"
  BY RequestFacts
<1> QED BY <1>1, <1>2, WholeFacts, PacketFacts DEF Torn, Carried

LEMMA NothingFacts ==
  /\ Nothing.what = "nothing" /\ Status.what = "data" /\ Status.len = 0 /\ Stall.what = "stall"
  /\ \A a, n : Data(a, n).what = "data" /\ Data(a, n).at = a /\ Data(a, n).len = n
BY DEF Nothing, Status, Stall, Data

LEMMA HostSetupKeeps ==
  ASSUME Protocol, ~overrun', NEW r \in Request, HostSetup(r)
  PROVE  Protocol'
<1> DEFINE e == [type |-> "setup", content |-> r]
<1>1. queue = 0 /\ pc # "content" /\ queue' = 1 /\ buf' = e /\ PcKept
  BY Posted DEF HostSetup, Post, Protocol
<1>0. pc' = pc \/ (pc = "asleep" /\ pc' = "lock")
  BY <1>1 DEF PcKept
<1>2. /\ phase = "idle" /\ phase' = PhaseOf(r) /\ asked' = r /\ got' = <<>> /\ in0' = Nothing /\ ~out0'
      /\ UNCHANGED <<msg, state, ptr, owned, stage, req, armed, view>> /\ May(r.kind)
  BY DEF HostSetup, PhaseOf, workVars, ep0Vars
<1>3. e \in Whole /\ e.type = "setup" /\ e.content = r
  BY WholeEvents
<1>4. ~Handed("setup") /\ pc # "transmit"
  BY <1>0, <1>1, <1>2, RequestFacts DEF Protocol, SetupWaits, Transmits, Aborted, Fresh, PhaseOf, Orderly
<1>5. Orderly'
  BY <1>0, <1>1, <1>2, <1>3 DEF Protocol, Orderly
<1>6. SetupWaits'
  BY <1>0, <1>1, <1>2, <1>3, <1>4 DEF SetupWaits, Queued, Handed, Fresh, PhaseOf
<1>7. OutWaits'
  BY <1>0, <1>1, <1>2, <1>3 DEF Protocol, OutWaits, Unanswered, DataOut, Queued, Handed, Carried, Aborted
<1>8. Transmits'
  BY <1>0, <1>2, <1>4 DEF Transmits
<1>9. Reading' /\ ReadDone'
  BY <1>0, <1>1, <1>2, <1>3, RequestFacts DEF Reading, ReadDone, Setting, Queued, PhaseOf
<1>10. PhaseFits'
  BY <1>0, <1>2, NothingFacts, RequestFacts DEF PhaseFits, PhaseOf, May
<1>11. ResetFirst'
  BY <1>0, <1>1, <1>2, <1>3 DEF Protocol, ResetFirst, Queued, Handed
<1>12. Configured'
  <2>1. view = "configured" => owned /\ Working
    BY <1>0, <1>2 DEF Protocol, Configured, Answering
  <2> QED BY <1>0, <1>1, <1>2, <2>1, NothingFacts DEF Configured, Answering, Working, DataWaits, Queued, Handed
<1> QED BY <1>5, <1>6, <1>7, <1>8, <1>9, <1>10, <1>11, <1>12 DEF Protocol

LEMMA HostOutKeeps ==
  ASSUME Protocol, ~overrun', HostOut
  PROVE  Protocol'
<1> DEFINE e == [type |-> "ep0_out", content |-> Packet(1)]
<1>1. queue = 0 /\ pc # "content" /\ queue' = 1 /\ buf' = e /\ PcKept
  BY Posted DEF HostOut, Post, Protocol
<1>0. pc' = pc \/ (pc = "asleep" /\ pc' = "lock")
  BY <1>1 DEF PcKept
<1>2. /\ phase = "out" /\ out0 /\ phase' = "status_in"
      /\ UNCHANGED <<msg, state, ptr, owned, stage, req, in0, armed, asked, got, view>>
  BY DEF HostOut, workVars, ep0Vars
<1>3. e \in Whole /\ e.type = "ep0_out" /\ e.content = Packet(1)
  BY WholeEvents
<1>4. asked.kind = "report" /\ in0 = Nothing
  BY <1>0, <1>2 DEF Protocol, PhaseFits
<1>5. ~Handed("setup") /\ pc # "transmit" /\ ~DataOut /\ ~Handed("reset")
  BY <1>0, <1>1, <1>2 DEF Protocol, SetupWaits, Transmits, OutWaits, Unanswered, ResetFirst, Aborted, Queued, Fresh
<1>6. Orderly'
  BY <1>0, <1>1, <1>2, <1>3 DEF Protocol, Orderly
<1>7. SetupWaits' /\ ResetFirst'
  BY <1>0, <1>1, <1>2, <1>3, <1>5 DEF SetupWaits, ResetFirst, Queued, Handed
<1>8. OutWaits'
  BY <1>0, <1>1, <1>2, <1>4, <1>5 DEF OutWaits, DataOut, Unanswered, Handed, Carried
<1>9. Transmits' /\ Reading' /\ ReadDone'
  BY <1>0, <1>2, <1>5 DEF Transmits, Reading, ReadDone
<1>10. PhaseFits'
  BY <1>0, <1>2, <1>4, NothingFacts DEF PhaseFits
<1>11. Configured'
  <2>1. view = "configured" => owned /\ state = "configured" /\ (armed \/ Handed("data"))
    BY <1>0, <1>1, <1>2 DEF Protocol, Configured, Answering, Working, DataWaits, Queued
  <2> QED BY <1>0, <1>2, <1>4, <2>1, NothingFacts DEF Configured, Answering, Working, DataWaits, Handed
<1> QED BY <1>6, <1>7, <1>8, <1>9, <1>10, <1>11 DEF Protocol

LEMMA HostStatusOutKeeps ==
  ASSUME Protocol, ~overrun', HostStatusOut
  PROVE  Protocol'
<1> DEFINE e == [type |-> "ep0_out", content |-> Packet(0)]
<1>1. queue = 0 /\ pc # "content" /\ queue' = 1 /\ buf' = e /\ PcKept
  BY Posted DEF HostStatusOut, Post, Protocol
<1>0. pc' = pc \/ (pc = "asleep" /\ pc' = "lock")
  BY <1>1 DEF PcKept
<1>2. /\ phase = "status_out" /\ phase' = "idle"
      /\ UNCHANGED <<msg, state, ptr, owned, stage, req, in0, armed, asked, view>>
  BY DEF HostStatusOut, workVars, ep0Vars
<1>3. e \in Whole /\ e.type = "ep0_out" /\ e.content = Packet(0)
  BY WholeEvents
<1>5. ~Handed("setup") /\ pc # "transmit" /\ ~DataOut /\ ~Handed("reset")
  BY <1>0, <1>1, <1>2 DEF Protocol, ReadDone, Setting, Transmits, OutWaits, Unanswered, ResetFirst, Aborted, Queued
<1>6. Orderly'
  BY <1>0, <1>1, <1>2, <1>3 DEF Protocol, Orderly
<1>7. SetupWaits' /\ ResetFirst'
  BY <1>0, <1>1, <1>2, <1>3, <1>5 DEF SetupWaits, ResetFirst, Queued, Handed
<1>8. OutWaits'
  BY <1>0, <1>1, <1>2, <1>3, <1>5 DEF OutWaits, DataOut, Handed, Carried, Queued
<1>9. Transmits' /\ Reading' /\ ReadDone' /\ PhaseFits'
  BY <1>0, <1>2, <1>5 DEF Transmits, Reading, ReadDone, PhaseFits
<1>11. Configured'
  <2>1. view = "configured" => owned /\ state = "configured" /\ (armed \/ Handed("data"))
    BY <1>0, <1>1, <1>2 DEF Protocol, Configured, Answering, Working, DataWaits, Queued
  <2> QED BY <1>0, <1>2, <2>1 DEF Configured, Answering, Working, DataWaits, Handed
<1> QED BY <1>6, <1>7, <1>8, <1>9, <1>11 DEF Protocol

LEMMA HostDataKeeps ==
  ASSUME Protocol, ~overrun', HostData
  PROVE  Protocol'
<1> DEFINE e == [type |-> "data", content |-> Packet(1)]
<1>1. queue = 0 /\ pc # "content" /\ queue' = 1 /\ buf' = e /\ PcKept
  BY Posted DEF HostData, Post, Protocol
<1>0. pc' = pc \/ (pc = "asleep" /\ pc' = "lock")
  BY <1>1 DEF PcKept
<1>2. /\ view = "configured"
      /\ UNCHANGED <<msg, state, ptr, owned, stage, req, in0, out0, phase, asked, got, view>>
  BY DEF HostData, workVars, ep0Vars
<1>3. e \in Whole /\ e.type = "data" /\ e.content = Packet(1)
  BY WholeEvents
<1>6. Orderly'
  BY <1>0, <1>1, <1>2, <1>3 DEF Protocol, Orderly
<1>7. SetupWaits'
  <2>1. Handed("setup") => Carried = asked /\ Fresh
    BY <1>0, <1>1 DEF Protocol, SetupWaits, Aborted
  <2> QED BY <1>0, <1>1, <1>2, <1>3, <2>1 DEF SetupWaits, Queued, Handed, Carried, Fresh
<1>8. OutWaits'
  <2>1. DataOut => Unanswered
    BY <1>1 DEF Protocol, OutWaits, Aborted
  <2> QED BY <1>0, <1>1, <1>2, <1>3, <2>1 DEF OutWaits, DataOut, Unanswered, Handed, Carried, Queued
<1>9. Transmits'
  BY <1>0, <1>1, <1>2, <1>3 DEF Protocol, Transmits, Aborted, Queued
<1>10. Setting' <=> Setting
  BY <1>0, <1>1, <1>2, <1>3 DEF Setting, Queued, Handed
<1>11. Reading' /\ ReadDone'
  BY <1>0, <1>2, <1>10 DEF Protocol, Reading, ReadDone, Begun, Sending, EmptyLast, Length
<1>12. PhaseFits'
  BY <1>0, <1>2 DEF Protocol, PhaseFits
<1>13. ResetFirst'
  <2>1. ~Handed("reset")
    BY <1>0, <1>2 DEF Protocol, ResetFirst
  <2> QED BY <1>0, <1>1, <1>2, <1>3, <2>1 DEF ResetFirst, Queued, Handed
<1>14. Configured'
  BY <1>0, <1>1, <1>2, <1>3 DEF Protocol, Configured, Answering, Working, DataWaits, Queued, Handed
<1> QED BY <1>6, <1>7, <1>8, <1>9, <1>11, <1>12, <1>13, <1>14 DEF Protocol

LEMMA HostResetKeeps ==
  ASSUME Protocol, ~overrun', HostReset
  PROVE  Protocol'
<1> DEFINE e == [type |-> "reset", content |-> Packet(0)]
<1>1. queue = 0 /\ pc # "content" /\ queue' = 1 /\ buf' = e /\ PcKept
  BY Posted DEF HostReset, Post, Protocol
<1>0. pc' = pc \/ (pc = "asleep" /\ pc' = "lock")
  BY <1>1 DEF PcKept
<1>2. /\ phase' = "idle" /\ view' = "default"
      /\ UNCHANGED <<msg, asked>>
  BY DEF HostReset, workVars
<1>3. e \in Whole /\ e.type = "reset" /\ e.content = Packet(0)
  BY WholeEvents
<1>4. Aborted'
  BY <1>0, <1>1, <1>2, <1>3 DEF Aborted
<1>5. Orderly'
  BY <1>0, <1>1, <1>2, <1>3 DEF Protocol, Orderly
<1>6. SetupWaits' /\ OutWaits' /\ Transmits' /\ ResetFirst'
  BY <1>0, <1>1, <1>2, <1>3, <1>4 DEF SetupWaits, OutWaits, Transmits, ResetFirst, Queued
<1>7. Reading' /\ ReadDone' /\ PhaseFits' /\ Configured'
  BY <1>0, <1>2 DEF Reading, ReadDone, PhaseFits, Configured, Answering
<1> QED BY <1>5, <1>6, <1>7 DEF Protocol

\* While endpoint 0 has a packet to send, no SETUP waits for the task, and a
\* read has begun.
LEMMA PacketSent ==
  ASSUME Protocol, phase \in {"in", "status_in"}, in0 # Nothing
  PROVE  ~Setting /\ pc # "transmit" /\ ~Queued("reset") /\ ~Handed("reset")
<1>1. ~Aborted
  BY DEF Aborted
<1>2. ~Setting
  BY <1>1 DEF Protocol, SetupWaits, Setting, Fresh
<1>3. pc # "transmit"
  BY <1>1, <1>2 DEF Protocol, Transmits, Reading, Begun
<1> QED BY <1>2, <1>3 DEF Protocol, ResetFirst, Setting

LEMMA SentGoesOn ==
  /\ Sent(0) = <<>>
  /\ \A n, m \in Nat : Len(Sent(n)) = n /\ Sent(n) \o [k \in 1..m |-> n + k] = Sent(n + m)
  /\ \A n \in Nat : Sent(n) \o [k \in 1..0 |-> 0 + k] = Sent(n)
BY DEF Sent

\* What the handler makes of the request with each packet.
Transfer == [size : Int, remain : Int, at : Int]

LEMMA TransferIsRecord ==
  /\ \A q \in Transfer : q = [size |-> q.size, remain |-> q.remain, at |-> q.at]
  /\ \A a \in Int, b \in Int, c \in Int : [size |-> a, remain |-> b, at |-> c] \in Transfer
BY DEF Transfer

LEMMA RequestGoesOn ==
  ASSUME NEW q \in Transfer, NEW remain \in Int, NEW a \in Int
  PROVE  [q EXCEPT !.remain = remain, !.at = a]
           = [size |-> q.size, remain |-> remain, at |-> a]
<1> DEFINE p == [q EXCEPT !.remain = remain, !.at = a]
<1>1. p.size = q.size /\ p.remain = remain /\ p.at = a /\ p \in Transfer
  BY DEF Transfer
<1> HIDE DEF p
<1>2. p = [size |-> p.size, remain |-> p.remain, at |-> p.at]
  BY <1>1, TransferIsRecord
<1>3. p = [size |-> q.size, remain |-> remain, at |-> a]
  BY <1>1, <1>2
<1> QED BY <1>3 DEF p

LEMMA LengthFacts ==
  ASSUME asked \in Request, asked.kind = "desc"
  PROVE  Length \in Nat \ {0} /\ asked.want \in Nat \ {0} /\ Length <= asked.want
BY RequestFacts DEF Length, Min2

\* The read goes on with the next packet, or with the empty one behind full
\* packets, or it is done.
LEMMA ReadGoesOn ==
  ASSUME Protocol, HostIn
  PROVE  Reading' /\ ReadDone'
<1>1. /\ phase = "in" /\ in0.what = "data" /\ got' = got \o Bytes(in0)
      /\ phase' = IF in0.len < Mps \/ Len(got') >= asked.want THEN "status_out" ELSE "in"
      /\ usbd_ep0_in_handler
      /\ UNCHANGED <<queue, buf, msg, pc, asked>>
  BY DEF HostIn, taskVars, workVars, eventVars
<1>2. in0 # Nothing
  BY <1>1, NothingFacts
<1>3. ~Setting /\ pc # "transmit"
  BY <1>1, <1>2, PacketSent
<1>4. asked.kind = "desc" /\ stage = "din" /\ (Sending \/ EmptyLast)
  BY <1>1, <1>3 DEF Protocol, Reading
<1>5. ~Setting' /\ pc' # "transmit" /\ asked'.kind = "desc" /\ Length' = Length
  BY <1>1, <1>3, <1>4 DEF Setting, Queued, Handed, Length
<1>6. Length \in Nat \ {0} /\ asked.want \in Nat \ {0} /\ Length <= asked.want
  BY <1>4, LengthFacts DEF Protocol, Orderly
<1>7. ASSUME phase' = "status_out" => got' = Sent(Length),
             phase' = "in" => stage' = "din" /\ (Sending' \/ EmptyLast')
      PROVE  Reading' /\ ReadDone'
  BY <1>5, <1>7 DEF Reading, ReadDone, Sent
<1>8. CASE EmptyLast
  <2>1. in0.len = 0 /\ Bytes(in0) = [k \in 1..0 |-> 0 + k] /\ got = Sent(Length)
    BY <1>8 DEF EmptyLast, Bytes, Status, Data
  <2>2. got' = Sent(Length)
    BY <1>1, <1>6, <2>1, SentGoesOn
  <2>3. in0.len < Mps
    BY <2>1, UsbAssumption
  <2>4. phase' = "status_out"
    BY <1>1, <2>3
  <2> QED BY <1>7, <2>2, <2>4
<1>9. CASE Sending
  <2> DEFINE n == Min2(req.remain, Mps)
  <2>1. /\ req.at \in Nat /\ req.remain \in Nat \ {0} /\ req.at + req.remain = Length
        /\ req.size = Length
        /\ got = Sent(req.at) /\ in0 = Data(req.at, n)
    BY <1>6, <1>9 DEF Sending
  <2>2. /\ n \in Nat \ {0} /\ n \in Nat
        /\ req.remain - Mps > 0 => n = Mps
        /\ req.remain - Mps = 0 => n = Mps /\ req.at + n = Length
        /\ n < Mps => req.at + n = Length
        /\ req.at + n <= Length
        /\ req.remain - Mps < 0 => n < Mps
    BY <2>1, UsbAssumption DEF Min2
  <2> HIDE DEF n
  <2>3. in0.len = n /\ Bytes(in0) = [k \in 1..n |-> req.at + k]
    BY <2>1 DEF Data, Bytes
  <2>4. got' = Sent(req.at + n) /\ Len(got') = req.at + n
    <3>1. got' = Sent(req.at + n)
      <4>1. Sent(req.at) \o [k \in 1..n |-> req.at + k] = Sent(req.at + n)
        BY <2>1, <2>2, SentGoesOn
      <4> QED BY <1>1, <2>1, <2>3, <4>1
    <3>2. req.at + n \in Nat
      BY <2>1, <2>2
    <3> QED BY <3>1, <3>2, SentGoesOn
  <2>5. phase' = "status_out" => got' = Sent(Length)
    <3>1. ASSUME n < Mps \/ req.at + n >= asked.want PROVE req.at + n = Length
      BY UsbAssumption, <1>6, <2>1, <2>2, <3>1
    <3>2. phase' = "status_out" => n < Mps \/ req.at + n >= asked.want
      BY <1>1, <2>3, <2>4
    <3> QED BY <2>4, <3>1, <3>2
  <2>6. ASSUME phase' = "in" PROVE stage' = "din" /\ (Sending' \/ EmptyLast')
    <3>1. ~(n < Mps) /\ ~(req.at + n >= asked.want)
      BY <1>1, <2>3, <2>4, <2>6
    <3>2. req.remain - Mps >= 0 /\ n = Mps
      BY <2>1, <2>2, <3>1, UsbAssumption
    <3>3. CASE req.remain - Mps > 0
      <4>1. /\ req' = [req EXCEPT !.remain = req.remain - Mps, !.at = @ + Mps]
            /\ in0' = Data(req.at + Mps, Min2(req.remain - Mps, Mps)) /\ stage' = "din"
        BY <1>1, <1>4, <3>3, <2>1, UsbAssumption DEF usbd_ep0_in_handler
      <4>2. req' = [size |-> Length, remain |-> req.remain - Mps, at |-> req.at + Mps]
        <5>1. req \in Transfer /\ req.size = Length
          BY <1>6, <1>9, TransferIsRecord DEF Sending
        <5>2. req.remain - Mps \in Int /\ req.at + Mps \in Int
          BY <2>1, UsbAssumption
        <5> QED BY <4>1, <5>1, <5>2, RequestGoesOn
      <4>3. /\ req.at + Mps \in Nat /\ req.remain - Mps = Length - (req.at + Mps)
            /\ Length - (req.at + Mps) \in Nat \ {0}
        BY <1>6, <2>1, <3>3, UsbAssumption
      <4>4. got' = Sent(req.at + Mps)
        BY <2>4, <3>2
      <4> QED BY <1>5, <4>1, <4>2, <4>3, <4>4 DEF Sending, Sent
    <3>4. CASE req.remain - Mps = 0
      <4>1. /\ req' = [req EXCEPT !.remain = req.remain - Mps, !.size = 0]
            /\ in0' = Data(0, 0) /\ stage' = "din"
        BY <1>1, <1>4, <1>6, <3>4, <2>1, UsbAssumption DEF usbd_ep0_in_handler
      <4>2. req'.remain = 0 /\ req'.size = 0
        BY <4>1, <3>4
      <4>3. got' = Sent(Length) /\ Length < asked.want
        BY <1>6, <2>2, <2>4, <3>1, <3>4
      <4> QED BY <1>1, <1>5, <4>1, <4>2, <4>3 DEF EmptyLast, Status, Sent
    <3> QED BY <2>1, <3>2, <3>3, <3>4, UsbAssumption
  <2> QED BY <1>7, <2>5, <2>6
<1> QED BY <1>4, <1>8, <1>9

LEMMA HostInKeeps ==
  ASSUME Protocol, HostIn
  PROVE  Protocol'
<1>1. /\ phase = "in" /\ phase' \in {"in", "status_out"} /\ in0.what = "data"
      /\ UNCHANGED <<queue, buf, msg, pc, state, ptr, owned, out0, armed, asked, view>>
  BY DEF HostIn, taskVars, workVars, eventVars
<1>2. ~Setting /\ pc # "transmit" /\ ~Queued("reset") /\ ~Handed("reset")
  BY <1>1, PacketSent, NothingFacts
<1>3. Orderly' /\ Transmits' /\ ResetFirst'
  BY <1>1, <1>2 DEF Protocol, Orderly, Transmits, ResetFirst, Queued, Handed
<1>4. SetupWaits'
  BY <1>1, <1>2 DEF SetupWaits, Setting, Queued, Handed
<1>5. OutWaits'
  <2>1. ~DataOut /\ ~(Queued("ep0_out") /\ buf.content # Packet(0))
    BY <1>1 DEF Protocol, OutWaits, Unanswered, Aborted
  <2> QED BY <1>1, <2>1 DEF OutWaits, DataOut, Queued, Handed, Carried
<1>6. PhaseFits'
  BY <1>1 DEF PhaseFits
<1>7. Configured'
  BY <1>1 DEF Protocol, Configured, Answering, Working, DataWaits, Queued, Handed
<1> QED BY <1>3, <1>4, <1>5, <1>6, <1>7, ReadGoesOn DEF Protocol

LEMMA HostStatusInKeeps ==
  ASSUME Protocol, HostStatusIn
  PROVE  Protocol'
<1>1. /\ phase = "status_in" /\ phase' = "idle" /\ in0.what = "data"
      /\ view' = IF in0.len = 0 THEN Believe ELSE view
      /\ UNCHANGED <<queue, buf, msg, pc, state, ptr, owned, armed, asked>>
  BY DEF HostStatusIn, taskVars, workVars, eventVars
<1>2. ~Setting /\ pc # "transmit" /\ ~Queued("reset") /\ ~Handed("reset") /\ in0 # Nothing
  BY <1>1, PacketSent, NothingFacts
<1>3. Orderly' /\ Transmits' /\ ResetFirst'
  BY <1>1, <1>2 DEF Protocol, Orderly, Transmits, ResetFirst, Queued, Handed
<1>4. SetupWaits'
  BY <1>1, <1>2 DEF SetupWaits, Setting, Queued, Handed
<1>5. OutWaits'
  <2>1. ~DataOut /\ ~(Queued("ep0_out") /\ buf.content # Packet(0))
    BY <1>1, <1>2 DEF Protocol, OutWaits, Unanswered, Aborted
  <2> QED BY <1>1, <2>1 DEF OutWaits, DataOut, Queued, Handed, Carried
<1>6. Reading' /\ ReadDone' /\ PhaseFits'
  BY <1>1 DEF Reading, ReadDone, PhaseFits
<1>7. Configured'
  <2>1. view' = "configured" => owned /\ Working
    <3>1. view' = Believe
      BY <1>1 DEF Protocol, PhaseFits
    <3>2. CASE asked.kind = "config"
      BY <1>1, <3>2 DEF Protocol, Configured, Answering
    <3>3. CASE asked.kind # "config"
      BY <1>1, <3>1, <3>3 DEF Protocol, Configured, Answering, Believe
    <3> QED BY <3>2, <3>3
  <2> QED BY <1>1, <2>1 DEF Configured, Answering, Working, DataWaits, Queued, Handed
<1> QED BY <1>3, <1>4, <1>5, <1>6, <1>7 DEF Protocol

LEMMA HostStalledKeeps ==
  ASSUME Protocol, HostStalled
  PROVE  Protocol'
<1>1. /\ phase \in {"in", "status_in"} /\ phase' = "idle" /\ in0 = Stall
      /\ UNCHANGED <<queue, buf, msg, pc, state, ptr, owned, armed, asked, view>>
  BY DEF HostStalled, taskVars, workVars, eventVars
<1>2. ~Setting /\ pc # "transmit" /\ ~Queued("reset") /\ ~Handed("reset") /\ in0 # Nothing
  BY <1>1, PacketSent, NothingFacts
<1>3. Orderly' /\ Transmits' /\ ResetFirst'
  BY <1>1, <1>2 DEF Protocol, Orderly, Transmits, ResetFirst, Queued, Handed
<1>4. SetupWaits'
  BY <1>1, <1>2 DEF SetupWaits, Setting, Queued, Handed
<1>5. OutWaits'
  <2>1. ~DataOut /\ ~(Queued("ep0_out") /\ buf.content # Packet(0))
    BY <1>1, <1>2 DEF Protocol, OutWaits, Unanswered, Aborted
  <2> QED BY <1>1, <2>1 DEF OutWaits, DataOut, Queued, Handed, Carried
<1>6. Reading' /\ ReadDone' /\ PhaseFits'
  BY <1>1 DEF Reading, ReadDone, PhaseFits
<1>7. Configured'
  <2>1. view = "configured" => owned /\ Working
    BY <1>1, NothingFacts DEF Protocol, Configured, Answering
  <2> QED BY <1>1, <2>1 DEF Configured, Answering, Working, DataWaits, Queued, Handed
<1> QED BY <1>3, <1>4, <1>5, <1>6, <1>7 DEF Protocol

\* What msg_q_recv does before it takes a message is of no account here.
LEMMA ReceivingKeeps ==
  ASSUME Protocol, Test \/ Hang \/ Lock
  PROVE  Protocol'
<1>1. /\ pc \in {"recv", "hang", "lock"} /\ pc' \in {"recv", "hang", "asleep", "lock", "take"}
      /\ UNCHANGED <<workVars, eventVars, ep0Vars, wireVars, hostVars>>
  BY DEF Test, Hang, Lock
<1>2. UNCHANGED <<queue, buf, msg, state, ptr, owned, stage, req, in0, out0, armed, phase, asked, got, view>>
  BY <1>1 DEF workVars, eventVars, ep0Vars, wireVars, hostVars
<1>3. \A type : ~Handed(type) /\ ~Handed(type)' /\ (Queued(type)' <=> Queued(type))
  BY <1>1, <1>2 DEF Handed, Queued
<1>4. Orderly' /\ SetupWaits' /\ OutWaits' /\ Transmits' /\ ResetFirst'
  BY <1>1, <1>2, <1>3
  DEF Protocol, Orderly, SetupWaits, OutWaits, Transmits, ResetFirst, DataOut, Unanswered, Fresh
<1>5. Setting' <=> Setting
  BY <1>3 DEF Setting
<1>6. Reading' /\ ReadDone' /\ PhaseFits'
  BY <1>1, <1>2, <1>5
  DEF Protocol, Reading, ReadDone, PhaseFits, Begun, Sending, EmptyLast, Length
<1>7. Configured'
  BY <1>2, <1>3 DEF Protocol, Configured, Answering, Working, DataWaits
<1> QED BY <1>4, <1>6, <1>7 DEF Protocol

LEMMA ReceiveKeeps ==
  ASSUME Protocol, Newest, Receive
  PROVE  Protocol'
<1>1. /\ pc = "take" /\ pc' = "content" /\ queue = 1 /\ queue' = 0
      /\ msg' = [type |-> buf.type, content |-> Packet(0)]
      /\ UNCHANGED <<buf, state, ptr, owned, stage, req, in0, out0, armed, phase, asked, got, view>>
  BY DEF Receive, Newest, Protocol, Orderly, ep0Vars, wireVars, hostVars
<1>2. msg'.type = buf.type
  BY <1>1
<1>3. Orderly'
  BY <1>1, <1>2 DEF Protocol, Orderly
<1>4. SetupWaits'
  BY <1>1, <1>2 DEF Protocol, SetupWaits, Queued, Handed, Carried, Fresh
<1>5. OutWaits'
  BY <1>1, <1>2 DEF Protocol, OutWaits, DataOut, Unanswered, Queued, Handed, Carried
<1>6. Setting' <=> Setting
  BY <1>1, <1>2 DEF Setting, Queued, Handed
<1>7. Transmits' /\ Reading' /\ ReadDone' /\ PhaseFits'
  BY <1>1, <1>6
  DEF Protocol, Transmits, Reading, ReadDone, PhaseFits, Begun, Sending, EmptyLast, Length
<1>8. ResetFirst'
  BY <1>1, <1>2 DEF Protocol, ResetFirst, Queued, Handed
<1>9. Configured'
  BY <1>1, <1>2 DEF Protocol, Configured, Answering, Working, DataWaits, Queued, Handed
<1> QED BY <1>3, <1>4, <1>5, <1>7, <1>8, <1>9 DEF Protocol

LEMMA CopyKeeps ==
  ASSUME Protocol, Newest, Copy
  PROVE  Protocol'
<1>1. /\ pc = "content" /\ pc' = "handle" /\ queue = 0
      /\ msg' = [msg EXCEPT !.content = buf.content]
      /\ UNCHANGED <<queue, buf, state, ptr, owned, stage, req, in0, out0, armed, phase, asked, got, view>>
  BY DEF Copy, Protocol, Orderly, eventVars, ep0Vars, wireVars, hostVars
<1>2. msg' = [type |-> msg.type, content |-> buf.content]
  BY <1>1, EventIsRecord DEF Newest
<1>3. msg'.type = msg.type /\ msg'.content = buf.content
  BY <1>2
<1>4. Carried' = Carried /\ \A type : Handed(type)' <=> Handed(type)
  BY <1>1, <1>3 DEF Carried, Handed
<1>5. Orderly'
  <2>1. msg' = buf
    BY <1>1, <1>2, WholeIsRecord DEF Protocol, Orderly
  <2> QED BY <1>1, <2>1 DEF Protocol, Orderly
<1>6. SetupWaits' /\ OutWaits' /\ ResetFirst'
  BY <1>1, <1>4
  DEF Protocol, SetupWaits, OutWaits, ResetFirst, DataOut, Unanswered, Fresh, Aborted, Queued
<1>7. Setting' <=> Setting
  BY <1>1, <1>4 DEF Setting, Queued
<1>8. Transmits' /\ Reading' /\ ReadDone' /\ PhaseFits'
  BY <1>1, <1>7
  DEF Protocol, Transmits, Reading, ReadDone, PhaseFits, Begun, Sending, EmptyLast, Length
<1>9. Configured'
  BY <1>1, <1>4 DEF Protocol, Configured, Answering, Working, DataWaits, Queued
<1> QED BY <1>5, <1>6, <1>8, <1>9 DEF Protocol

\* A handler that leaves endpoint 0 alone ends with the event it had.
LEMMA HandlerDone ==
  ASSUME Protocol, pc = "handle", msg.type # "setup", pc' = "recv",
         UNCHANGED <<queue, buf, stage, req, in0, out0, phase, asked, got, view>>
  PROVE  /\ Orderly' /\ SetupWaits' /\ OutWaits' /\ Transmits' /\ Reading' /\ ReadDone'
         /\ PhaseFits' /\ ResetFirst'
<1>1. \A type : ~Handed(type)' /\ (Queued(type)' <=> Queued(type))
  BY DEF Handed, Queued
<1>2. Orderly' /\ PhaseFits' /\ Transmits'
  BY DEF Protocol, Orderly, PhaseFits, Transmits
<1>3. SetupWaits'
  BY <1>1 DEF Protocol, SetupWaits, Fresh
<1>4. OutWaits'
  BY <1>1 DEF Protocol, OutWaits, Unanswered, DataOut
<1>5. Setting' <=> Setting
  BY <1>1 DEF Setting, Handed
<1>6. Reading' /\ ReadDone'
  BY <1>5 DEF Protocol, Reading, ReadDone, Begun, Sending, EmptyLast, Length
<1>7. ResetFirst'
  BY <1>1 DEF Protocol, ResetFirst
<1> QED BY <1>2, <1>3, <1>4, <1>6, <1>7

LEMMA HandleResetKeeps ==
  ASSUME Protocol, HandleReset
  PROVE  Protocol'
<1>1. /\ pc = "handle" /\ msg.type = "reset" /\ pc' = "recv"
      /\ UNCHANGED <<queue, buf, stage, req, in0, out0, armed, phase, asked, got, view>>
  BY DEF HandleReset, Handle, Done, eventVars, ep0Vars, wireVars, hostVars
<1>2. view = "default" /\ (phase = "idle" \/ Queued("setup"))
  BY <1>1 DEF Protocol, ResetFirst, Handed
<1>3. ~Answering("config")
  BY <1>2, NothingFacts DEF Protocol, SetupWaits, Fresh, Answering
<1>4. Configured'
  BY <1>1, <1>2, <1>3 DEF Configured, Answering
<1> QED BY <1>1, <1>4, HandlerDone DEF Protocol

LEMMA DataNotifyKeeps ==
  ASSUME Protocol, DataNotify
  PROVE  Protocol'
<1>1. /\ pc = "handle" /\ msg.type = "data" /\ pc' = "recv"
      /\ UNCHANGED <<queue, buf, state, ptr, owned, stage, req, in0, out0, phase, asked, got, view>>
  BY DEF DataNotify, Handle, Done, eventVars, ep0Vars, hostVars
<1>2. IF state = "configured" THEN armed' = TRUE ELSE UNCHANGED armed
  BY <1>1, NotTorn DEF DataNotify, Protocol
<1>3. Configured'
  BY <1>1, <1>2 DEF Protocol, Configured, Answering, Working
<1> QED BY <1>1, <1>3, HandlerDone DEF Protocol

LEMMA Ep0OutKeeps ==
  ASSUME Protocol, Ep0Out
  PROVE  Protocol'
<1>1. /\ pc = "handle" /\ msg.type = "ep0_out" /\ pc' = "recv"
      /\ UNCHANGED <<queue, buf, msg, state, ptr, owned, armed, phase, asked, got, view>>
  BY DEF Ep0Out, Handle, Done, eventVars, hostVars
<1>2. ~Torn /\ Carried = msg.content /\ Handed("ep0_out")
  BY <1>1, NotTorn DEF Protocol, Handed
<1>3. CASE UNCHANGED <<ep0Vars, in0, out0>>
  <2>1. Configured'
    BY <1>1, <1>3 DEF Protocol, Configured, Answering, Working, DataWaits, Queued, Handed
  <2> QED BY <1>1, <1>3, <2>1, HandlerDone DEF Protocol, ep0Vars
<1>4. CASE msg.content.size > 0 /\ in0' = Status /\ UNCHANGED <<stage, out0>>
  <2>1. Aborted \/ Unanswered
    <3>1. Packet(0).size = 0
      BY PacketFacts
    <3>2. msg.content # Packet(0)
      BY <1>4, <3>1
    <3> QED BY <1>2, <3>2 DEF Protocol, OutWaits, DataOut
  <2>2. phase \in {"idle", "status_in"} /\ (phase = "status_in" => asked.kind = "report")
    BY <2>1 DEF Aborted, Unanswered
  <2>3. \A type : ~Handed(type)' /\ (Queued(type)' <=> Queued(type))
    BY <1>1 DEF Handed, Queued
  <2>4. ~Queued("setup")
    BY <2>1 DEF Protocol, SetupWaits, Aborted, Unanswered, Queued, Fresh, PhaseOf
  <2>5. ~(Queued("ep0_out") /\ buf.content # Packet(0))
    BY <1>2, <1>4, <2>1, <1>1, PacketFacts
    DEF Protocol, OutWaits, Aborted, Unanswered, Queued, DataOut
  <2>6. Orderly' /\ Transmits' /\ SetupWaits' /\ OutWaits' /\ Reading' /\ ReadDone'
    BY <1>1, <2>2, <2>3, <2>4, <2>5
    DEF Protocol, Orderly, Transmits, SetupWaits, OutWaits, DataOut, Reading, ReadDone
  <2>7. PhaseFits'
    BY <1>1, <1>4, <2>2, NothingFacts DEF Protocol, PhaseFits
  <2>8. ResetFirst'
    BY <1>1, <2>3 DEF Protocol, ResetFirst
  <2>9. Configured'
    <3>1. view = "configured" => owned /\ state = "configured" /\ (armed \/ Queued("data"))
      BY <1>1, <2>2 DEF Protocol, Configured, Answering, Working, DataWaits, Handed
    <3> QED BY <1>1, <2>2, <2>3, <3>1 DEF Configured, Answering, Working, DataWaits
  <2> QED BY <2>6, <2>7, <2>8, <2>9 DEF Protocol
<1> QED BY <1>2, <1>3, <1>4 DEF Ep0Out

\* The task has the SETUP in its hands: it is the host's, or a bus reset has
\* ended the transfer.
LEMMA SetupHandled ==
  ASSUME Protocol, NEW r \in Request, Asks(r)
  PROVE  /\ pc = "handle" /\ msg.type = "setup" /\ msg' = msg
         /\ r = msg.content /\ ~Queued("setup")
         /\ \/ Aborted /\ view = "default" /\ phase = "idle" /\ buf.type = "reset"
            \/ r = asked /\ Fresh
<1>1. pc = "handle" /\ msg.type = "setup" /\ msg' = msg
  BY DEF Asks, Handle
<1>2. ~Torn /\ Carried = msg.content /\ Handed("setup")
  BY <1>1, NotTorn DEF Protocol, Handed
<1>3. r = msg.content
  BY <1>2 DEF Asks
<1>4. ~Queued("setup") /\ (Aborted \/ (r = asked /\ Fresh))
  BY <1>2, <1>3 DEF Protocol, SetupWaits
<1>5. Aborted => view = "default" /\ phase = "idle" /\ buf.type = "reset"
  BY DEF Protocol, ResetFirst, Aborted, Queued
<1> QED BY <1>1, <1>3, <1>4, <1>5

\* What holds behind the handler of a SETUP whatever it did to endpoint 0.
LEMMA SetupDone ==
  ASSUME Protocol, NEW r \in Request, Asks(r), pc' \in {"recv", "transmit"},
         UNCHANGED <<queue, buf, phase, asked, got, view>>
  PROVE  /\ Orderly' /\ SetupWaits' /\ OutWaits' /\ ReadDone' /\ ResetFirst'
         /\ pc' = "recv" => Transmits'
         /\ ~Setting' /\ ~Handed("data")
<1>1. \A type : ~Handed(type)' /\ (Queued(type)' <=> Queued(type))
  BY DEF Handed, Queued
<1>2. ~Queued("setup") /\ ~Handed("data") /\ Handed("setup")
  BY SetupHandled DEF Handed
<1>3. ~(Queued("ep0_out") /\ buf.content # Packet(0))
  BY SetupHandled DEF Protocol, OutWaits, Unanswered, Queued, Fresh, PhaseOf
<1>4. Orderly'
  BY DEF Protocol, Orderly
<1>5. SetupWaits' /\ OutWaits' /\ ~Setting'
  BY <1>1, <1>2, <1>3 DEF SetupWaits, OutWaits, DataOut, Setting
<1>6. ReadDone'
  BY <1>2 DEF Protocol, ReadDone, Setting
<1>7. ResetFirst'
  BY <1>1 DEF Protocol, ResetFirst
<1> QED BY <1>2, <1>4, <1>5, <1>6, <1>7 DEF Transmits

LEMMA GetDescriptorKeeps ==
  ASSUME Protocol, NEW r \in Request, GetDescriptor(r)
  PROVE  Protocol'
<1>1. /\ Asks(r) /\ r.kind = "desc" /\ pc' = "transmit" /\ stage' = "din"
      /\ req' = [size |-> Min2(r.size, r.want), remain |-> Min2(r.size, r.want), at |-> 0]
      /\ UNCHANGED <<queue, buf, state, ptr, owned, in0, out0, armed, phase, asked, got, view>>
  BY DEF GetDescriptor, eventVars, wireVars, hostVars
<1>2. ~Queued("setup") /\ (Aborted \/ (r = asked /\ Fresh))
  BY <1>1, SetupHandled
<1>3. Transmits'
  BY <1>1, <1>2 DEF Transmits, Aborted, Queued, Fresh, PhaseOf
<1>4. Reading'
  BY <1>1, <1>2 DEF Reading, Begun, Length, Aborted, Fresh
<1>5. PhaseFits'
  BY <1>1 DEF Protocol, PhaseFits
<1>6. Configured'
  BY <1>1, SetupDone DEF Protocol, Configured, Answering, Working, DataWaits, Queued
<1> QED BY <1>1, <1>3, <1>4, <1>5, <1>6, SetupDone DEF Protocol

LEMMA TransmitKeeps ==
  ASSUME Protocol, Transmit
  PROVE  Protocol'
<1>1. /\ pc = "transmit" /\ pc' = "recv" /\ in0' = Data(req.at, Min2(req.size, Mps))
      /\ UNCHANGED <<queue, buf, msg, state, ptr, owned, stage, req, out0, armed, phase, asked, got, view>>
  BY DEF Transmit, Done, eventVars, ep0Vars, hostVars
<1>2. phase \in {"idle", "in"} /\ ~Queued("setup")
      /\ ~(Queued("ep0_out") /\ buf.content # Packet(0))
  BY <1>1 DEF Protocol, Transmits, OutWaits, Unanswered, Aborted, Queued
<1>3. \A type : ~Handed(type) /\ ~Handed(type)' /\ (Queued(type)' <=> Queued(type))
  BY <1>1 DEF Handed, Queued
<1>4. Orderly' /\ Transmits' /\ SetupWaits' /\ OutWaits' /\ ReadDone' /\ PhaseFits'
  BY <1>1, <1>2, <1>3
  DEF Protocol, Orderly, Transmits, SetupWaits, OutWaits, DataOut, ReadDone, PhaseFits
<1>5. Reading'
  <2>1. ASSUME phase = "in" PROVE asked.kind = "desc" /\ stage = "din" /\ Begun
    BY <1>1, <1>2, <1>3, <2>1 DEF Protocol, Reading, Setting
  <2>2. ASSUME phase = "in" PROVE Sending'
    <3>1. Begun /\ Length \in Nat \ {0} /\ Length' = Length
      BY <1>1, <2>1, <2>2, LengthFacts DEF Protocol, Orderly, Length
    <3>2. req.at = 0 /\ req.size = Length /\ req.remain = Length /\ Length - req.at = Length
      BY <3>1 DEF Begun
    <3>3. got' = Sent(0)
      BY <1>1, <3>1, SentGoesOn DEF Begun
    <3> QED BY <1>1, <3>1, <3>2, <3>3 DEF Begun, Sending, Sent
  <2> QED BY <1>1, <2>1, <2>2 DEF Reading
<1>6. ResetFirst'
  BY <1>1, <1>3 DEF Protocol, ResetFirst
<1>7. Configured'
  BY <1>1, <1>2, <1>3 DEF Protocol, Configured, Answering, Working, DataWaits
<1> QED BY <1>4, <1>5, <1>6, <1>7 DEF Protocol

LEMMA SetAddressKeeps ==
  ASSUME Protocol, NEW r \in Request, SetAddress(r)
  PROVE  Protocol'
<1>1. /\ Asks(r) /\ r.kind = "address" /\ pc' = "recv" /\ in0' = Status
      /\ UNCHANGED <<queue, buf, ptr, owned, stage, req, out0, armed, phase, asked, got, view>>
  BY DEF SetAddress, Done, eventVars, ep0Vars, hostVars
<1>2. \/ phase = "idle" /\ view = "default"
      \/ phase = "status_in" /\ asked.kind = "address"
  BY <1>1, SetupHandled DEF Fresh, PhaseOf
<1>3. Reading'
  BY <1>1, <1>2 DEF Reading
<1>4. PhaseFits'
  BY <1>1, <1>2, NothingFacts DEF Protocol, PhaseFits
<1>5. Configured'
  BY <1>1, <1>2 DEF Protocol, PhaseFits, Configured, Answering
<1> QED BY <1>1, <1>3, <1>4, <1>5, SetupDone DEF Protocol

LEMMA SetConfigKeeps ==
  ASSUME Protocol, ptr = owned, owned \in BOOLEAN, NEW r \in Request, SetConfig(r)
  PROVE  Protocol'
<1>1. /\ Asks(r) /\ r.kind \in {"bad", "deconfig", "config"} /\ pc' = "recv"
      /\ UNCHANGED <<queue, buf, stage, req, out0, phase, asked, got, view>>
  BY DEF SetConfig, Done, eventVars, ep0Vars, hostVars
<1>2. \/ phase = "idle" /\ view = "default"
      \/ phase = "status_in" /\ asked = r /\ in0 = Nothing
  BY <1>1, SetupHandled DEF Fresh, PhaseOf
<1>3. Reading'
  BY <1>1, <1>2 DEF Reading
<1>4. PhaseFits'
  <2>1. in0' \in {Stall, Status}
    BY DEF SetConfig
  <2> QED BY <1>1, <1>2, <2>1, NothingFacts DEF PhaseFits
<1>5. Configured'
  <2>1. CASE r.kind = "bad"
    <3>1. in0'.what = "stall" /\ UNCHANGED <<state, owned, armed>>
      BY <2>1, NothingFacts DEF SetConfig
    <3>2. view = "configured" => owned /\ state = "configured" /\ (armed \/ Queued("data"))
      BY <1>1, <1>2, SetupDone, NothingFacts
      DEF Protocol, Configured, Answering, Working, DataWaits
    <3> QED BY <1>1, <3>1, <3>2 DEF Configured, Answering, Working, DataWaits, Queued
  <2>2. CASE r.kind = "deconfig"
    <3>1. in0' = Status /\ UNCHANGED owned
      BY <2>2 DEF SetConfig
    <3>2. view = "configured" => owned
      BY DEF Protocol, Configured
    <3> QED BY <1>1, <1>2, <2>2, <3>1, <3>2, NothingFacts DEF Configured, Answering
  <2>3. CASE r.kind = "config"
    <3>1. state' = "configured" /\ armed' = TRUE /\ owned' = (owned \/ ~ptr)
      BY <2>3 DEF SetConfig, function_enable
    <3> QED BY <3>1 DEF Configured, Working
  <2> QED BY <1>1, <2>1, <2>2, <2>3
<1> QED BY <1>1, <1>3, <1>4, <1>5, SetupDone DEF Protocol

LEMMA SetReportKeeps ==
  ASSUME Protocol, NEW r \in Request, SetReport(r)
  PROVE  Protocol'
<1>1. /\ Asks(r) /\ r.kind = "report" /\ pc' = "recv"
      /\ UNCHANGED <<queue, buf, state, ptr, owned, in0, armed, phase, asked, got, view>>
  BY DEF SetReport, Done, eventVars, hostVars
<1>2. phase \in {"idle", "out"}
  BY <1>1, SetupHandled DEF Fresh, PhaseOf
<1>3. Reading' /\ PhaseFits'
  BY <1>1, <1>2 DEF Protocol, Reading, PhaseFits
<1>4. Configured'
  BY <1>1, SetupDone DEF Protocol, Configured, Answering, Working, DataWaits, Queued
<1> QED BY <1>1, <1>3, <1>4, SetupDone DEF Protocol

LEMMA SetupIgnoredNever ==
  ASSUME Protocol, SetupIgnored
  PROVE  FALSE
BY NotTorn DEF Protocol, SetupIgnored, Handle

\* The pointer of the HID function and its memory.
Buffer ==
  /\ ptr = owned /\ owned \in BOOLEAN
  /\ state = "configured" => owned

LEMMA BufferKept == Buffer /\ [UsbNext]_usbVars => Buffer'
<1> SUFFICES ASSUME Buffer, [UsbNext]_usbVars PROVE Buffer'
  OBVIOUS
<1>1. ASSUME UNCHANGED <<state, ptr, owned>> PROVE Buffer'
  BY <1>1 DEF Buffer
<1>2. ASSUME (\E r \in Request : HostSetup(r)) \/ HostGoesOn \/ HostData \/ HostReset
      PROVE  Buffer'
  BY <1>1, <1>2 DEF HostSetup, HostGoesOn, HostIn, HostStatusIn, HostStalled, HostOut,
    HostStatusOut, HostData, HostReset, taskVars, workVars
<1>3. ASSUME Test \/ Hang \/ Lock \/ Receive \/ Copy \/ Transmit \/ SetupIgnored \/ Ep0Out
               \/ DataNotify
      PROVE  Buffer'
  BY <1>1, <1>3 DEF workVars, Test, Hang, Lock, Receive, Copy, Transmit, SetupIgnored, Ep0Out, DataNotify
<1>4. ASSUME HandleReset PROVE Buffer'
  BY <1>4 DEF HandleReset, function_disable, Buffer
<1>5. ASSUME NEW r \in Request, GetDescriptor(r) \/ SetAddress(r) \/ SetReport(r) PROVE Buffer'
  BY <1>5 DEF GetDescriptor, SetAddress, SetReport, Buffer
<1>6. ASSUME NEW r \in Request, SetConfig(r) PROVE Buffer'
  <2>1. CASE UNCHANGED <<ptr, owned>> /\ state' \in {state, "address"}
    BY <2>1 DEF Buffer
  <2>2. CASE function_enable
    BY <2>2 DEF function_enable, Buffer
  <2> QED BY <1>6, <2>1, <2>2 DEF SetConfig
<1>7. ASSUME UNCHANGED usbVars PROVE Buffer'
  BY <1>1, <1>7 DEF usbVars, taskVars, workVars
<1> QED BY <1>2, <1>3, <1>4, <1>5, <1>6, <1>7 DEF UsbNext, TaskStep

LEMMA ProtocolInit == UsbInit => Protocol /\ Buffer /\ Newest
<1> SUFFICES ASSUME UsbInit PROVE Protocol /\ Buffer /\ Newest
  OBVIOUS
<1>1. /\ queue = 0 /\ pc = "recv" /\ phase = "idle" /\ view = "default" /\ buf = NoEvent
      /\ asked = [kind |-> "bad", size |-> 0, want |-> 0]
      /\ ptr = FALSE /\ owned = FALSE /\ state = "notattached"
  BY DEF UsbInit
<1>2. buf \in Whole /\ asked \in Request
  BY <1>1 DEF Whole, NoEvent, Request
<1>3. Orderly /\ Transmits
  BY <1>1, <1>2 DEF Orderly, Transmits
<1>4. SetupWaits /\ OutWaits /\ ResetFirst
  BY <1>1 DEF SetupWaits, OutWaits, DataOut, ResetFirst, Queued, Handed
<1>5. Reading /\ ReadDone /\ PhaseFits /\ Configured
  BY <1>1 DEF Reading, ReadDone, PhaseFits, Configured, Answering
<1>6. Buffer
  BY <1>1 DEF Buffer
<1> QED BY <1>3, <1>4, <1>5, <1>6, NewestInit DEF Protocol

\* Events that were overrun stay so.
LEMMA OverrunStays == [UsbNext]_usbVars /\ overrun => overrun'
<1> SUFFICES ASSUME [UsbNext]_usbVars, overrun PROVE overrun'
  OBVIOUS
<1>1. ASSUME UNCHANGED overrun PROVE overrun'
  BY <1>1, Zenon
<1>2. ASSUME NEW e, usbd_event_signal(e) PROVE overrun'
  BY <1>2, Zenon DEF usbd_event_signal, Signalled
<1>3. CASE UNCHANGED usbVars
  BY <1>1, <1>3 DEF usbVars, eventVars
<1>4. CASE TaskStep
  BY <1>1, <1>4 DEF TaskStep, Test, Hang, Lock, Receive, Copy, HandleReset, Transmit, SetupIgnored, Ep0Out,
    DataNotify, GetDescriptor, SetAddress, SetConfig, SetReport, eventVars
<1>5. CASE HostIn \/ HostStatusIn \/ HostStalled
  BY <1>1, <1>5 DEF HostIn, HostStatusIn, HostStalled, eventVars
<1>6. CASE (\E r \in Request : HostSetup(r)) \/ HostOut \/ HostStatusOut \/ HostData \/ HostReset
  BY <1>2, <1>6 DEF HostSetup, HostOut, HostStatusOut, HostData, HostReset, Post
<1> QED BY <1>3, <1>4, <1>5, <1>6 DEF UsbNext, HostGoesOn

LEMMA ProtocolKept ==
  ASSUME Protocol, Newest, Buffer, [UsbNext]_usbVars, ~overrun'
  PROVE  Protocol'
<1>1. ASSUME UNCHANGED usbVars PROVE Protocol'
  BY <1>1 DEF usbVars, taskVars, workVars, eventVars, ep0Vars, wireVars, hostVars, Protocol, Orderly,
    SetupWaits, OutWaits, Transmits, Reading, ReadDone, PhaseFits, ResetFirst, Configured, Aborted,
    Fresh, Setting, DataOut, Unanswered, Length, Begun, Sending, EmptyLast, DataWaits, Working,
    Answering, Queued, Handed, Carried
<1>2. ASSUME (\E r \in Request : HostSetup(r)) \/ HostGoesOn \/ HostData \/ HostReset
      PROVE  Protocol'
  BY <1>2, HostSetupKeeps, HostInKeeps, HostStatusInKeeps, HostStalledKeeps, HostOutKeeps,
    HostStatusOutKeeps, HostDataKeeps, HostResetKeeps DEF HostGoesOn
<1>3. ASSUME TaskStep PROVE Protocol'
  BY <1>3, ReceivingKeeps, ReceiveKeeps, CopyKeeps, HandleResetKeeps, TransmitKeeps, SetupIgnoredNever,
    Ep0OutKeeps, DataNotifyKeeps, GetDescriptorKeeps, SetAddressKeeps, SetConfigKeeps,
    SetReportKeeps DEF TaskStep, Buffer
<1> QED BY <1>1, <1>2, <1>3 DEF UsbNext

-----------------------------------------------------------------------------
\* The inductive invariant: the transfers keep to the protocol as long as no
\* event overran another, and what holds in any case.
Inv == Newest /\ Buffer /\ (~overrun => Protocol)

LEMMA Invariant == UsbSpec => []Inv
<1>1. UsbInit => Inv
  BY ProtocolInit DEF Inv
<1>2. Inv /\ [UsbNext]_usbVars => Inv'
  <2> SUFFICES ASSUME Inv, [UsbNext]_usbVars PROVE Inv'
    OBVIOUS
  <2>1. Newest'
    BY HostKeepsNewest, TaskKeepsNewest
    DEF Inv, UsbNext, usbVars, taskVars, workVars, eventVars, Newest
  <2>2. ~overrun' => Protocol'
    BY OverrunStays, ProtocolKept DEF Inv
  <2> QED BY <2>1, <2>2, BufferKept DEF Inv
<1> QED BY <1>1, <1>2, PTL DEF UsbSpec

(***************************************************************************)
(* The HID function's pointer and its memory, for every behaviour of the   *)
(* host, and a configured host only sends into memory that is allocated    *)
(* (drivers/usb/device/class/hid.c:509-558).                               *)
(***************************************************************************)
THEOREM BufferSafe == UsbSpec => []BufferOwned
<1>1. Inv => BufferOwned
  BY DEF Inv, Buffer, Protocol, Configured, BufferOwned
<1> QED BY Invariant, <1>1, PTL

(***************************************************************************)
(* A descriptor reaches the host byte by byte and whole, for every packet  *)
(* size, every length of it and every length the host wants                *)
(* (drivers/usb/device/core/core.c:1842-1882, 1980-2005).                  *)
(***************************************************************************)
THEOREM DataExact == UsbSpec => []ExactData
<1>1. Inv => ExactData
  <2> SUFFICES ASSUME Inv, ~overrun, asked.kind = "desc"
               PROVE  /\ phase = "in" => got = [k \in 1..Len(got) |-> k] /\ Len(got) <= Length
                      /\ phase = "status_out" => got = [k \in 1..Length |-> k]
    BY DEF ExactData, Length
  <2>1. Length \in Nat \ {0}
    BY LengthFacts DEF Inv, Protocol, Orderly
  <2>2. phase = "in" => \E n \in Nat : n <= Length /\ got = Sent(n)
    <3>1. phase = "in" => got = <<>> \/ Sending \/ EmptyLast
      BY DEF Inv, Protocol, Reading, Begun, SetupWaits, Setting, Fresh, Aborted
    <3>2. got = <<>> => got = Sent(0) /\ 0 <= Length
      BY <2>1, SentGoesOn
    <3>3. Sending => req.at \in Nat /\ req.at <= Length /\ got = Sent(req.at)
      BY <2>1 DEF Sending
    <3>4. EmptyLast => Length \in Nat /\ Length <= Length /\ got = Sent(Length)
      BY <2>1 DEF EmptyLast
    <3> QED BY <3>1, <3>2, <3>3, <3>4
  <2>3. phase = "in" => got = [k \in 1..Len(got) |-> k] /\ Len(got) <= Length
    BY <2>2, SentGoesOn DEF Sent
  <2>4. phase = "status_out" => got = [k \in 1..Length |-> k]
    BY DEF Inv, Protocol, ReadDone, Sent
  <2> QED BY <2>3, <2>4
<1> QED BY Invariant, <1>1, PTL

(***************************************************************************)
(* A configured host finds the HID OUT endpoint ready whenever the task    *)
(* has nothing left to do (drivers/usb/device/class/hid.c:397-401,         *)
(* drivers/usb/device/core/core.c:373-392).                                *)
(***************************************************************************)
THEOREM EndpointReady == UsbSpec => []EndpointServed
<1>1. Inv => EndpointServed
  BY DEF Inv, Protocol, Configured, Working, Answering, DataWaits, Queued, Handed, Resting, EndpointServed
<1> QED BY Invariant, <1>1, PTL

-----------------------------------------------------------------------------
(***************************************************************************)
(* The com task: first the types of its variables.                         *)
(***************************************************************************)
Dirs == {"read", "write"}

Steps == {"call", "fire", "get", "enlist", "listed", "hung", "early", "wait", "back", "ok", "failed"}
ReadRequest == [buf : Reads, remain : Nat, pos : Nat]
Armings == [on : BOOLEAN, buf : Reads, pos : Nat]
Links == [step : Steps, sem : [Dirs -> Nat], listed : BOOLEAN, timer : BOOLEAN, late : BOOLEAN,
          request : ReadRequest, out : Armings]

Waits == {"idle", "heart", "vack", "vdata", "answer", "ack1", "data", "ack2"}
Pieces == [kind : Kind, k : 0..N, c : Nat, index : Index \cup {0}]
Package(p) == p.kind = "download" => p.k \in 1..N

ComTyped ==
  /\ at \in Reads \cup Writes \cup {"reboot"}
  /\ step \in Steps /\ sem \in [Dirs -> Nat] /\ listed \in BOOLEAN /\ timer \in BOOLEAN
  /\ late \in BOOLEAN /\ conf \in BOOLEAN /\ request \in ReadRequest /\ out \in Armings
  /\ mem \in [Reads -> [1..Chunks -> Pieces]]
  /\ \A b \in Reads : \A c \in 1..Chunks : Package(mem[b][c])
  /\ gaveUp \in BOOLEAN /\ pkg \in 1..N /\ length \in [1..N -> 1..Chunks] /\ twice \in [Dirs -> Nat]
  /\ host \in [wait : Waits, k : 0..N, c : Nat]

\* What a step other than an event of the controller or the host leaves.
LEMMA Sizes ==
  ASSUME ComTyped
  PROVE  /\ \A a : Size(a) \in Nat /\ Size(a) >= 1
         /\ \A a : Dir(a) \in Dirs
         /\ 1 \in 1..Chunks /\ Chunks \in Nat
<1>1. length[pkg] \in Nat /\ length[pkg] >= 1 /\ Chunks \in Nat \ {0}
  BY ComAssumption DEF ComTyped
<1> QED BY <1>1 DEF Size, Dir, Dirs

LEMMA LinkTyped == ASSUME ComTyped PROVE Link \in Links
BY DEF ComTyped, Link, Links

\* One unit: the task resumed, or the count raised.
LEMMA OneUnit ==
  ASSUME NEW s \in Links, NEW d \in Dirs
  PROVE  /\ Unit(s, d) \in Links
         /\ Unit(s, d).request = s.request /\ Unit(s, d).out = s.out
         /\ \/ /\ Waiting(d) /\ s.listed /\ Unit(s, d).sem = s.sem
               /\ Unit(s, d).step = Awake(s.step) /\ ~Unit(s, d).listed
            \/ /\ ~(Waiting(d) /\ s.listed) /\ Unit(s, d).sem = [s.sem EXCEPT ![d] = @ + 1]
               /\ Unit(s, d).step = s.step /\ Unit(s, d).listed = s.listed
<1> DEFINE u == Awake(s.step)
           g == s.late \/ ~(Waiting(d) /\ s.step = "get")
           n == [s.sem EXCEPT ![d] = @ + 1]
<1>1. u \in Steps
  BY DEF Awake, Steps, Links
<1>2. n \in [Dirs -> Nat] /\ g \in BOOLEAN
  BY DEF Links
<1>3. CASE Waiting(d) /\ s.listed
  <2>1. Unit(s, d) = [s EXCEPT !.listed = FALSE, !.timer = FALSE, !.step = u]
    BY <1>3, Zenon DEF Unit
  <2> HIDE DEF u
  <2>2. /\ Unit(s, d) \in Links /\ Unit(s, d).request = s.request /\ Unit(s, d).out = s.out
        /\ Unit(s, d).sem = s.sem /\ Unit(s, d).step = u /\ ~Unit(s, d).listed
    BY <1>1, <2>1 DEF Links
  <2> QED BY <1>3, <2>2 DEF u
<1>4. CASE ~(Waiting(d) /\ s.listed)
  <2>1. Unit(s, d) = [s EXCEPT !.sem = n, !.late = g]
    BY <1>4, Zenon DEF Unit
  <2> HIDE DEF n, g
  <2>2. /\ Unit(s, d) \in Links /\ Unit(s, d).request = s.request /\ Unit(s, d).out = s.out
        /\ Unit(s, d).sem = n /\ Unit(s, d).step = s.step /\ Unit(s, d).listed = s.listed
    BY <1>2, <2>1 DEF Links
  <2> QED BY <1>4, <2>2 DEF n
<1> QED BY <1>3, <1>4

\* data_notify ends the request, goes on with it, or finds nothing to do.
LEMMA Notified ==
  ASSUME NEW s \in Links
  PROVE  LET q == s.request
             t == data_notify(s)
         IN  /\ t \in Links
             /\ \/ q.remain = 0 /\ t = s
                \/ /\ q.remain = 1 /\ t.request.remain = 0 /\ t.out = s.out
                   /\ \/ /\ Waiting("read") /\ s.listed /\ t.sem = s.sem
                         /\ t.step = Awake(s.step) /\ ~t.listed
                      \/ /\ ~(Waiting("read") /\ s.listed) /\ t.sem = [s.sem EXCEPT !["read"] = @ + 1]
                         /\ t.step = s.step /\ t.listed = s.listed
                \/ /\ q.remain > 1 /\ t.sem = s.sem /\ t.step = s.step /\ t.listed = s.listed
                   /\ t.request.buf = q.buf /\ t.request.remain = q.remain - 1 /\ t.request.pos = q.pos + 1
                   /\ t.out.on /\ t.out.buf = q.buf /\ t.out.pos = q.pos + 1
<1> DEFINE q == s.request
           p == Received(s)
           m == q.remain - 1
           x == q.pos + 1
           o == [on |-> TRUE, buf |-> p.buf, pos |-> p.pos]
           e == [s EXCEPT !.request = p]
           r == [s EXCEPT !.request = p, !.out = o]
<1>1. q \in ReadRequest /\ q.remain \in Nat /\ q.pos \in Nat /\ q.buf \in Reads
  BY DEF Links, ReadRequest
<1>2. CASE q.remain = 0
  BY <1>2 DEF data_notify
<1>3. ASSUME q.remain # 0
      PROVE  p \in ReadRequest /\ p.buf = q.buf /\ p.remain = q.remain - 1 /\ p.pos = q.pos + 1
  <2>1. m \in Nat /\ x \in Nat /\ p = [q EXCEPT !.remain = m, !.pos = x]
    BY <1>1, <1>3 DEF Received
  <2> HIDE DEF p
  <2>2. p \in ReadRequest /\ p.buf = q.buf /\ p.remain = m /\ p.pos = x
    <3> HIDE DEF q, m, x
    <3> QED BY <1>1, <2>1 DEF ReadRequest
  <2> QED BY <2>2
<1>4. CASE q.remain # 0 /\ p.remain = 0
  <2>1. data_notify(s) = Unit(e, "read")
    BY <1>4, Zenon DEF data_notify
  <2> HIDE DEF p
  <2>2. /\ e \in Links /\ e.request = p /\ e.out = s.out /\ e.sem = s.sem /\ e.step = s.step
        /\ e.listed = s.listed
    BY <1>3, <1>4 DEF Links
  <2> HIDE DEF e
  <2>3. q.remain = 1
    BY <1>1, <1>3, <1>4
  <2>4. "read" \in Dirs
    BY DEF Dirs
  <2>5. /\ data_notify(s) \in Links /\ data_notify(s).request = e.request /\ data_notify(s).out = e.out
        /\ \/ /\ Waiting("read") /\ e.listed /\ data_notify(s).sem = e.sem
              /\ data_notify(s).step = Awake(e.step) /\ ~data_notify(s).listed
           \/ /\ ~(Waiting("read") /\ e.listed) /\ data_notify(s).sem = [e.sem EXCEPT !["read"] = @ + 1]
              /\ data_notify(s).step = e.step /\ data_notify(s).listed = e.listed
    BY <2>1, <2>2, <2>4, OneUnit
  <2> QED BY <1>4, <2>2, <2>3, <2>5
<1>5. CASE q.remain # 0 /\ p.remain # 0
  <2>1. data_notify(s) = r
    BY <1>5, Zenon DEF data_notify, ReceiveOn
  <2>2. o \in Armings /\ o.on /\ o.buf = q.buf /\ o.pos = q.pos + 1
    BY <1>1, <1>3, <1>5 DEF Armings
  <2> HIDE DEF p, o
  <2>3. /\ r \in Links /\ r.request = p /\ r.out = o /\ r.sem = s.sem /\ r.step = s.step
        /\ r.listed = s.listed
    BY <1>3, <1>5, <2>2 DEF Links
  <2> HIDE DEF r
  <2>4. q.remain > 1
    BY <1>1, <1>3, <1>5
  <2> QED BY <1>3, <1>5, <2>1, <2>2, <2>3, <2>4
<1> QED BY <1>2, <1>4, <1>5

\* An event of an endpoint, handled once, never or twice.
LEMMA Handles ==
  ASSUME ComTyped, NEW n \in 0..2, NEW s \in Links,
         Become(CASE n = 0 -> s [] n = 1 -> data_notify(s) [] n = 2 -> data_notify(data_notify(s)))
  PROVE  \E t \in Links :
           /\ (n = 0 /\ t = s) \/ (n = 1 /\ t = data_notify(s)) \/ (n = 2 /\ t = data_notify(data_notify(s)))
           /\ step' = t.step /\ sem' = t.sem /\ listed' = t.listed /\ timer' = t.timer /\ late' = t.late
           /\ request' = t.request /\ out' = t.out /\ mark' = mark
<1> DEFINE t == CASE n = 0 -> s [] n = 1 -> data_notify(s) [] n = 2 -> data_notify(data_notify(s))
<1>1. (n = 0 /\ t = s) \/ (n = 1 /\ t = data_notify(s)) \/ (n = 2 /\ t = data_notify(data_notify(s)))
  OBVIOUS
<1>2. data_notify(s) \in Links
  BY Notified, Zenon
<1>3. data_notify(data_notify(s)) \in Links
  BY <1>2, Notified, Zenon
<1>4. t \in Links
  BY <1>1, <1>2, <1>3
<1>5. Become(t)
  BY Zenon
<1> HIDE DEF t
<1> QED BY <1>1, <1>4, <1>5 DEF Become

LEMMA LinkOff ==
  ASSUME ComTyped
  PROVE  LET s == [Link EXCEPT !.out = Off]
         IN  /\ s \in Links /\ s.out = Off /\ s.step = step /\ s.sem = sem /\ s.listed = listed
             /\ s.request = request
<1>1. Off \in Armings /\ Link \in Links
  BY LinkTyped DEF Off, Armings, Reads
<1>2. Link.step = step /\ Link.sem = sem /\ Link.listed = listed /\ Link.request = request
  BY DEF Link
<1> DEFINE s == [Link EXCEPT !.out = Off]
<1>3. /\ s \in Links /\ s.out = Off /\ s.step = Link.step /\ s.sem = Link.sem
      /\ s.listed = Link.listed /\ s.request = Link.request
  BY <1>1 DEF Links
<1> QED BY <1>2, <1>3

\* Counting what was handled twice.
LEMMA TwiceCounts ==
  ASSUME ComTyped, NEW n \in 0..2, NEW d \in Dirs, Handled(n, d)
  PROVE  /\ twice' \in [Dirs -> Nat] /\ \A e \in Dirs \ {d} : twice'[e] = twice[e]
         /\ twice'[d] = IF n = 2 THEN twice[d] + 1 ELSE twice[d]
BY DEF Handled, ComTyped

LEMMA ArriveTyped ==
  ASSUME ComTyped, NEW p \in Pieces, Package(p), NEW n \in 0..2, Arrive(p, n),
         host' \in [wait : Waits, k : 0..N, c : Nat]
  PROVE  ComTyped'
<1> USE DEF comTaskVars
<1>1. PICK t \in Links : /\ step' = t.step /\ sem' = t.sem /\ listed' = t.listed /\ timer' = t.timer
                         /\ late' = t.late /\ request' = t.request /\ out' = t.out
  BY LinkOff, Handles DEF Arrive
<1>2. /\ step' \in Steps /\ sem' \in [Dirs -> Nat] /\ listed' \in BOOLEAN /\ timer' \in BOOLEAN
      /\ late' \in BOOLEAN /\ request' \in ReadRequest /\ out' \in Armings
  BY <1>1 DEF Links
<1>3. twice' \in [Dirs -> Nat]
  BY TwiceCounts DEF Arrive, Dirs
<1>4. /\ mem' \in [Reads -> [1..Chunks -> Pieces]]
      /\ \A b \in Reads : \A c \in 1..Chunks : Package(mem'[b][c])
  <2>1. mem \in [Reads -> [1..Chunks -> Pieces]] /\ out.buf \in Reads
    BY DEF ComTyped, Armings
  <2>2. CASE mem' = mem
    BY <2>2 DEF ComTyped
  <2>3. CASE mem' = [mem EXCEPT ![out.buf][out.pos + 1] = p]
    <3> DEFINE f == [mem[out.buf] EXCEPT ![out.pos + 1] = p]
    <3>1. mem' = [mem EXCEPT ![out.buf] = f]
      BY <2>3
    <3>2. f \in [1..Chunks -> Pieces] /\ \A c \in 1..Chunks : Package(f[c])
      BY <2>1 DEF ComTyped
    <3> HIDE DEF f
    <3>3. mem' \in [Reads -> [1..Chunks -> Pieces]]
      BY <2>1, <3>1, <3>2
    <3>4. ASSUME NEW b \in Reads, NEW c \in 1..Chunks PROVE Package(mem'[b][c])
      <4>1. mem'[b] = IF b = out.buf THEN f ELSE mem[b]
        BY <2>1, <3>1
      <4>2. Package(mem[b][c])
        BY DEF ComTyped
      <4> QED BY <3>2, <4>1, <4>2
    <3> QED BY <3>3, <3>4
  <2> QED BY <2>2, <2>3 DEF Arrive
<1>5. at' = at /\ pkg' = pkg /\ length' = length /\ conf' = conf /\ gaveUp' = gaveUp
  BY DEF Arrive
<1> QED BY <1>2, <1>3, <1>4, <1>5 DEF ComTyped

LEMMA CommandTyped ==
  ASSUME NEW p \in Commands
  PROVE  /\ p \in Pieces /\ Package(p) /\ p.k \in 0..N /\ Answer(p.kind) \in Waits
<1>1. CASE p = Piece("heart", 0, 0, 0) \/ p = Piece("version", 0, 0, 0)
  BY <1>1, ComAssumption DEF Piece, Pieces, Kind, Package, Answer, Waits
<1>2. ASSUME NEW k \in 1..N, NEW i \in Index, p = Piece("download", k, 0, i)
      PROVE  /\ p \in Pieces /\ Package(p) /\ p.k \in 0..N /\ Answer(p.kind) \in Waits
  BY <1>2, ComAssumption DEF Piece, Pieces, Kind, Package, Answer, Waits
<1> QED BY <1>1, <1>2 DEF Commands

\* What the com task does with the result of a transfer.
LEMMA ThenTyped ==
  ASSUME ComTyped, NEW a \in Reads \cup Writes \cup {"reboot"},
         NextTransfer(a) \/ Later(a), pkg' \in 1..N
  PROVE  ComTyped'
<1> USE DEF comTaskVars
<1>1. Then(a) /\ timer' \in BOOLEAN
  BY DEF NextTransfer, Later, ComTyped
<1>2. NoPiece \in Pieces /\ Package(NoPiece)
  BY ComAssumption DEF NoPiece, Piece, Pieces, Kind, Package
<1>3. Freed \in [Reads -> [1..Chunks -> Pieces]] /\ \A b \in Reads : \A c \in 1..Chunks : Package(Freed[b][c])
  BY <1>2 DEF Freed, ComTyped
<1>4. mem' \in [Reads -> [1..Chunks -> Pieces]] /\ \A b \in Reads : \A c \in 1..Chunks : Package(mem'[b][c])
  <2>1. mem' = Freed \/ mem' = mem
    BY <1>1 DEF Then
  <2> QED BY <1>3, <2>1 DEF ComTyped
<1>5. step' \in Steps /\ at' = a
  BY <1>1 DEF Then, Steps
<1> QED BY <1>1, <1>4, <1>5 DEF Then, ComTyped

LEMMA TaskTyped ==
  ASSUME ComTyped, ComStep \/ Timeout
  PROVE  ComTyped'
<1> USE DEF comTaskVars, linkVars
<1>1. {"cmd", "vread", "heart", "vack", "vdata", "ack1", "ack2", "img", "tmp", "reboot"}
         \subseteq Reads \cup Writes \cup {"reboot"}
  BY DEF Reads, Writes
<1>2. ASSUME Call PROVE ComTyped'
  <2>1. request' \in ReadRequest
    <3>1. request' = request \/ (at \in Reads /\ request' = [request EXCEPT !.buf = at, !.pos = 0])
      BY <1>2 DEF Call
    <3>2. request \in ReadRequest
      BY DEF ComTyped
    <3>3. \A a \in Reads : [request EXCEPT !.buf = a, !.pos = 0] \in ReadRequest
      BY <3>2 DEF ReadRequest
    <3> QED BY <3>1, <3>2, <3>3
  <2> QED BY <1>2, <2>1 DEF Call, ComTyped, Steps
<1>3. ASSUME Fire PROVE ComTyped'
  <2> DEFINE m == Size(at)
  <2>1. m \in Nat
    BY Sizes
  <2>2. request' = request \/ request' = [request EXCEPT !.remain = m]
    BY <1>3 DEF Fire
  <2> HIDE DEF m
  <2>3. request' \in ReadRequest
    BY <2>1, <2>2 DEF ComTyped, ReadRequest
  <2>4. out' \in Armings
    <3>1. out' = out \/ out' = [on |-> conf, buf |-> request.buf, pos |-> request.pos]
      BY <1>3 DEF Fire
    <3>2. conf \in BOOLEAN
      BY DEF ComTyped
    <3> QED BY <3>1, <3>2 DEF ComTyped, ReadRequest, Armings
  <2> QED BY <1>3, <2>3, <2>4 DEF Fire, ComTyped, Steps
<1>4. ASSUME Get PROVE ComTyped'
  <2>1. sem' \in [Dirs -> Nat]
    <3>1. sem' = sem \/ (sem[Dir(at)] > 0 /\ sem' = [sem EXCEPT ![Dir(at)] = @ - 1])
      BY <1>4 DEF Get
    <3>2. Dir(at) \in Dirs
      BY Sizes
    <3> QED BY <3>1, <3>2 DEF ComTyped
  <2>2. step' \in Steps
    BY <1>4 DEF Get, Steps
  <2> QED BY <1>4, <2>1, <2>2 DEF Get, WaitOnly, ComTyped
<1>5. ASSUME Enlist \/ Sleep \/ StartTimer \/ Timeout \/ Return PROVE ComTyped'
  <2>1. step' \in Steps /\ timer' \in BOOLEAN /\ listed' \in BOOLEAN /\ gaveUp' \in BOOLEAN
    BY <1>5 DEF Enlist, Sleep, StartTimer, Timeout, Return, ComTyped, Steps
  <2>2. WaitOnly /\ sem' = sem
    BY <1>5 DEF Enlist, Sleep, StartTimer, Timeout, Return
  <2> QED BY <2>1, <2>2 DEF WaitOnly, ComTyped
<1>6. ASSUME Dispatch PROVE ComTyped'
  <2>1. mem["cmd"][1].kind = "download" => mem["cmd"][1].k \in 1..N
    BY Sizes DEF ComTyped, Package, Reads
  <2>2. pkg' \in 1..N
    BY <1>6, <2>1 DEF Dispatch, Keep, ComTyped
  <2>3. \E a \in {"heart", "vack", "ack1", "cmd"} : NextTransfer(a) \/ Later(a)
    BY <1>6 DEF Dispatch
  <2> QED BY <1>1, <2>2, <2>3, ThenTyped
<1>7. ASSUME Version \/ GiveUp \/ Acked \/ WritePackage \/ Written PROVE ComTyped'
  <2>1. \E a \in {"vdata", "vread", "cmd", "img", "ack2", "reboot", "tmp"} : NextTransfer(a) \/ Later(a)
    BY <1>7 DEF Version, GiveUp, Acked, WritePackage, Written
  <2>2. pkg' \in 1..N
    BY <1>7 DEF Version, GiveUp, Acked, WritePackage, Written, Keep, ComTyped
  <2> QED BY <1>1, <2>1, <2>2, ThenTyped
<1>8. ASSUME NextPackage PROVE ComTyped'
  <2>1. mem["tmp"][1].kind = "download" => mem["tmp"][1].k \in 1..N
    BY Sizes DEF ComTyped, Package, Reads
  <2>2. pkg' \in 1..N
    BY <1>8, <2>1 DEF NextPackage, ComTyped
  <2>3. \E a \in {"ack1", "cmd"} : NextTransfer(a) \/ Later(a)
    BY <1>8 DEF NextPackage
  <2> QED BY <1>1, <2>2, <2>3, ThenTyped
<1> QED BY <1>2, <1>3, <1>4, <1>5, <1>6, <1>7, <1>8 DEF ComStep

LEMMA HostTyped ==
  ASSUME ComTyped, HostStep
  PROVE  ComTyped'
<1> USE DEF comTaskVars, linkVars, waitVars
<1>1. /\ host \in [wait : Waits, k : 0..N, c : Nat] /\ host.k \in 0..N /\ host.c \in Nat
      /\ [wait |-> "idle", k |-> 0, c |-> 0] \in [wait : Waits, k : 0..N, c : Nat]
  BY ComAssumption DEF ComTyped, Waits
<1>2. ASSUME NEW n \in 0..2, NEW p \in Commands, HostCommand(p, n) PROVE ComTyped'
  <2>1. p \in Pieces /\ Package(p) /\ p.k \in 0..N /\ Answer(p.kind) \in Waits
    BY CommandTyped
  <2>2. host' \in [wait : Waits, k : 0..N, c : Nat]
    BY <1>2, <2>1 DEF HostCommand
  <2> QED BY <1>2, <2>1, <2>2, ArriveTyped DEF HostCommand
<1>3. ASSUME NEW n \in 0..2, HostChunk(n) PROVE ComTyped'
  <2>1. Piece("data", host.k, host.c + 1, 0) \in Pieces /\ Package(Piece("data", host.k, host.c + 1, 0))
    BY <1>1 DEF Piece, Pieces, Kind, Package
  <2>2. host' \in [wait : Waits, k : 0..N, c : Nat]
    BY <1>1, <1>3 DEF HostChunk, Waits
  <2> QED BY <1>3, <2>1, <2>2, ArriveTyped DEF HostChunk
<1>4. ASSUME NEW n \in 0..2, HostAnswer(n) PROVE ComTyped'
  <2>1. Piece("ack", 0, 0, 0) \in Pieces /\ Package(Piece("ack", 0, 0, 0))
    BY ComAssumption DEF Piece, Pieces, Kind, Package
  <2>2. host' \in [wait : Waits, k : 0..N, c : Nat]
    BY <1>1, <1>4 DEF HostAnswer, Waits
  <2> QED BY <1>4, <2>1, <2>2, ArriveTyped DEF HostAnswer
<1>5. ASSUME NEW n \in 0..2, HostTakes(n) PROVE ComTyped'
  <2> DEFINE u == Unit(Link, "write")
             v == Unit(u, "write")
             t == CASE n = 0 -> Link [] n = 1 -> u [] n = 2 -> v
  <2>1. Link \in Links /\ u \in Links
    BY LinkTyped, OneUnit DEF Dirs
  <2> HIDE DEF u
  <2>2. v \in Links
    BY <2>1, OneUnit DEF Dirs
  <2> HIDE DEF v
  <2>3. t \in Links /\ Become(t)
    BY <1>5, <2>1, <2>2 DEF HostTakes, u, v
  <2> HIDE DEF t
  <2>4. /\ step' \in Steps /\ sem' \in [Dirs -> Nat] /\ listed' \in BOOLEAN /\ timer' \in BOOLEAN
        /\ late' \in BOOLEAN /\ request' \in ReadRequest /\ out' \in Armings
    BY <2>3 DEF Links, Become
  <2>5. twice' \in [Dirs -> Nat]
    BY <1>5, TwiceCounts DEF HostTakes, Dirs
  <2>6. host' \in [wait : Waits, k : 0..N, c : Nat]
    <3>1. \E w \in {"vdata", "answer", "data", "idle"} : host' = [host EXCEPT !.wait = w]
      BY <1>5 DEF HostTakes
    <3> QED BY <1>1, <3>1 DEF Waits
  <2> QED BY <1>5, <2>4, <2>5, <2>6 DEF HostTakes, ComTyped
<1>6. ASSUME HostGivesUp \/ Configure PROVE ComTyped'
  BY <1>1, <1>6 DEF HostGivesUp, Configure, ComTyped
<1>7. ASSUME Unplug PROVE ComTyped'
  <2>1. Off \in Armings
    BY DEF Off, Armings, Reads
  <2> QED BY <1>1, <1>7, <2>1 DEF Unplug, ComTyped
<1> QED BY <1>2, <1>3, <1>4, <1>5, <1>6, <1>7 DEF HostStep

LEMMA TypedInit ==
  ASSUME ComInit
  PROVE  ComTyped
<1>1. NoPiece \in Pieces /\ Package(NoPiece)
  BY ComAssumption DEF NoPiece, Piece, Pieces, Kind, Package
<1>2. mem \in [Reads -> [1..Chunks -> Pieces]] /\ \A b \in Reads : \A c \in 1..Chunks : Package(mem[b][c])
  BY <1>1 DEF ComInit
<1>3. request \in ReadRequest /\ out \in Armings /\ host \in [wait : Waits, k : 0..N, c : Nat]
  BY ComAssumption DEF ComInit, Off, Reads, Waits, ReadRequest, Armings
<1>4. sem \in [Dirs -> Nat] /\ twice \in [Dirs -> Nat] /\ length \in [1..N -> 1..Chunks] /\ pkg \in 1..N
  BY ComAssumption DEF ComInit, Dirs
<1> QED BY <1>2, <1>3, <1>4 DEF ComInit, ComTyped, Reads, Steps

LEMMA TypedNext ==
  ASSUME ComTyped, [ComNext]_comVars
  PROVE  ComTyped'
<1>1. CASE UNCHANGED comVars
  BY <1>1 DEF comVars, comTaskVars, linkVars, waitVars, ComTyped
<1> QED BY <1>1, TaskTyped, HostTyped DEF ComNext

(***************************************************************************)
(* The units of the two semaphores.  A transfer that the controller works  *)
(* on is a unit to come: together with the count it is at most one, one    *)
(* more while the task is about to test the count, and one more for each   *)
(* completion of a write that was handled twice.                           *)
(***************************************************************************)
\* What the request still owes, and what is to come of it.
Owed(s) == IF s.request.remain # 0 THEN 1 ELSE 0
InFlight(d) == IF d = "read" THEN out.on /\ request.remain # 0 ELSE in
Coming(d) == IF InFlight(d) THEN 1 ELSE 0

Limit(d) == (IF Waiting(d) /\ step = "get" THEN 2 ELSE 1) + (IF d = "write" THEN twice[d] ELSE 0)

UnitsInv == \A d \in Dirs : sem[d] + Coming(d) <= Limit(d)

LEMMA Facts ==
  ASSUME ComTyped, NEW d \in Dirs
  PROVE  sem[d] \in Nat /\ Coming(d) \in 0..1 /\ Limit(d) \in Nat /\ Limit(d) >= 1 /\ twice[d] \in Nat
BY DEF ComTyped, Coming, Limit

LEMMA AwakeGets ==
  ASSUME NEW w
  PROVE  Awake(w) = "get" <=> w = "get"
BY DEF Awake

\* data_notify spends what the request owes.
LEMMA NotifyUnits ==
  ASSUME NEW s \in Links
  PROVE  /\ data_notify(s) \in Links
         /\ data_notify(s).step = "get" <=> s.step = "get"
         /\ data_notify(s).sem["write"] = s.sem["write"]
         /\ data_notify(s).sem["read"] + Owed(data_notify(s)) <= s.sem["read"] + Owed(s)
<1> DEFINE t == data_notify(s)
<1>1. t \in Links /\ s.sem \in [Dirs -> Nat] /\ s.request.remain \in Nat
  BY Notified DEF Links, ReadRequest
<1>2. /\ s.sem["read"] \in Nat /\ [s.sem EXCEPT !["read"] = @ + 1]["read"] = s.sem["read"] + 1
      /\ [s.sem EXCEPT !["read"] = @ + 1]["write"] = s.sem["write"]
  BY <1>1 DEF Dirs
<1>3. \/ s.request.remain = 0 /\ t = s
      \/ /\ s.request.remain = 1 /\ t.request.remain = 0
         /\ \/ t.sem = s.sem /\ t.step = Awake(s.step)
            \/ t.sem = [s.sem EXCEPT !["read"] = @ + 1] /\ t.step = s.step
      \/ s.request.remain > 1 /\ t.sem = s.sem /\ t.step = s.step
  BY Notified
<1> HIDE DEF t
<1>4. Owed(s) \in 0..1 /\ Owed(t) \in 0..1 /\ (s.request.remain # 0 => Owed(s) = 1)
      /\ (t.request.remain = 0 => Owed(t) = 0)
  BY DEF Owed
<1>5. (t.step = "get" <=> s.step = "get") /\ t.sem["write"] = s.sem["write"]
  BY <1>2, <1>3, AwakeGets
<1>6. t.sem["read"] + Owed(t) <= s.sem["read"] + Owed(s)
  BY <1>1, <1>2, <1>3, <1>4
<1> QED BY <1>1, <1>5, <1>6 DEF t

LEMMA UnitsArrive ==
  ASSUME ComTyped, ComTyped', UnitsInv, NEW p, NEW n \in 0..2, Arrive(p, n)
  PROVE  UnitsInv'
<1> DEFINE s == [Link EXCEPT !.out = Off]
<1>1. s \in Links /\ s.sem = sem /\ s.step = step /\ s.request = request
  BY LinkOff
<1>2. out.on /\ in' = in /\ at' = at /\ Handled(n, "read")
  BY DEF Arrive, comTaskVars
<1>3. PICK t \in Links :
        /\ t = s \/ t = data_notify(s) \/ t = data_notify(data_notify(s))
        /\ sem' = t.sem /\ step' = t.step /\ request' = t.request /\ out' = t.out
  BY <1>1, Handles DEF Arrive
<1> HIDE DEF s
<1>4. sem["read"] \in Nat /\ sem["write"] \in Nat /\ Owed(s) \in 0..1
  BY DEF ComTyped, Dirs, Owed
<1>5. /\ (t.step = "get" <=> step = "get") /\ t.sem["write"] = sem["write"]
      /\ t.sem["read"] + Owed(t) <= sem["read"] + Owed(s)
  <2>1. /\ data_notify(s) \in Links /\ (data_notify(s).step = "get" <=> step = "get")
        /\ data_notify(s).sem["write"] = sem["write"]
        /\ data_notify(s).sem["read"] + Owed(data_notify(s)) <= sem["read"] + Owed(s)
    BY <1>1, NotifyUnits
  <2>2. /\ data_notify(data_notify(s)) \in Links
        /\ (data_notify(data_notify(s)).step = "get" <=> step = "get")
        /\ data_notify(data_notify(s)).sem["write"] = sem["write"]
        /\ data_notify(data_notify(s)).sem["read"] + Owed(data_notify(data_notify(s)))
             <= data_notify(s).sem["read"] + Owed(data_notify(s))
    BY <2>1, NotifyUnits
  <2>3. /\ data_notify(s).sem["read"] \in Nat /\ data_notify(data_notify(s)).sem["read"] \in Nat
        /\ Owed(data_notify(s)) \in 0..1 /\ Owed(data_notify(data_notify(s))) \in 0..1
    BY <2>1, <2>2 DEF Links, Dirs, Owed
  <2>4. CASE t = s
    BY <1>1, <1>4, <2>4
  <2>5. CASE t = data_notify(s)
    BY <2>1, <2>5
  <2>6. CASE t = data_notify(data_notify(s))
    BY <1>4, <2>1, <2>2, <2>3, <2>6
  <2> QED BY <1>3, <2>4, <2>5, <2>6
<1>6. twice'["write"] = twice["write"]
  BY <1>2, TwiceCounts DEF Dirs
<1>9. Coming("read") = Owed(s)
  BY <1>1, <1>2 DEF Coming, InFlight, Owed
<1>10. Coming("read")' <= Owed(t) /\ Owed(t) \in 0..1 /\ Coming("read")' \in 0..1
  BY <1>3 DEF Coming, InFlight, Owed
<1>11. Coming("write")' = Coming("write") /\ \A d \in Dirs : Limit(d)' = Limit(d)
  BY <1>2, <1>3, <1>5, <1>6 DEF Coming, InFlight, Limit, Waiting, Dirs
<1>12. (sem["read"] + Coming("read") <= Limit("read"))'
  <2>1. sem'["read"] \in Nat /\ Limit("read") \in Nat /\ sem["read"] + Coming("read") <= Limit("read")
    BY Facts DEF ComTyped, UnitsInv, Dirs
  <2>2. Limit("read")' = Limit("read") /\ sem'["read"] = t.sem["read"]
    BY <1>3, <1>11 DEF Dirs
  <2> QED BY <1>4, <1>5, <1>9, <1>10, <2>1, <2>2
<1>13. (sem["write"] + Coming("write") <= Limit("write"))'
  BY <1>3, <1>5, <1>11 DEF UnitsInv, Dirs
<1> QED BY <1>12, <1>13 DEF UnitsInv, Dirs

LEMMA Takes ==
  ASSUME ComTyped, NEW n \in 0..2, HostTakes(n)
  PROVE  /\ request' = request /\ out' = out /\ (step' = "get" <=> step = "get")
         /\ sem'["read"] = sem["read"] /\ sem'["write"] \in Nat
         /\ sem'["write"] <= sem["write"] + 1 + (IF n = 2 THEN 1 ELSE 0)
         /\ Dir(at) = "read" => step' = step /\ listed' = listed
<1> DEFINE u == Unit(Link, "write")
           v == Unit(u, "write")
           t == CASE n = 0 -> Link [] n = 1 -> u [] n = 2 -> v
<1>1. /\ Link \in Links /\ Link.sem = sem /\ Link.step = step /\ Link.request = request /\ Link.out = out
      /\ Link.listed = listed
  BY LinkTyped DEF Link
<1>2. Become(t)
  BY DEF HostTakes
<1>3. (n = 0 /\ t = Link) \/ (n = 1 /\ t = u) \/ (n = 2 /\ t = v)
  OBVIOUS
<1>4. /\ u \in Links /\ u.request = request /\ u.out = out /\ (u.step = "get" <=> step = "get")
      /\ u.sem = sem \/ u.sem = [sem EXCEPT !["write"] = @ + 1]
      /\ ~Waiting("write") => u.step = step /\ u.listed = listed
  <2>1. /\ u \in Links /\ u.request = Link.request /\ u.out = Link.out
        /\ \/ Waiting("write") /\ u.sem = Link.sem /\ u.step = Awake(Link.step)
           \/ u.sem = [Link.sem EXCEPT !["write"] = @ + 1] /\ u.step = Link.step /\ u.listed = Link.listed
    BY <1>1, OneUnit, Zenon DEF Dirs
  <2> HIDE DEF u
  <2>2. u.sem = sem \/ u.sem = [sem EXCEPT !["write"] = @ + 1]
    BY <1>1, <2>1, Zenon
  <2> QED BY <1>1, <2>1, <2>2, AwakeGets
<1> HIDE DEF u
<1>5. /\ v \in Links /\ v.request = request /\ v.out = out /\ (v.step = "get" <=> step = "get")
      /\ v.sem = u.sem \/ v.sem = [u.sem EXCEPT !["write"] = @ + 1]
      /\ ~Waiting("write") => v.step = step /\ v.listed = listed
  <2>1. /\ v \in Links /\ v.request = u.request /\ v.out = u.out
        /\ \/ Waiting("write") /\ v.sem = u.sem /\ v.step = Awake(u.step)
           \/ v.sem = [u.sem EXCEPT !["write"] = @ + 1] /\ v.step = u.step /\ v.listed = u.listed
    BY <1>4, OneUnit, Zenon DEF Dirs
  <2> HIDE DEF v
  <2> QED BY <1>4, <2>1, AwakeGets
<1> HIDE DEF v, t
<1>6. ASSUME NEW f \in [Dirs -> Nat], NEW h, h = f \/ h = [f EXCEPT !["write"] = @ + 1]
      PROVE  h["read"] = f["read"] /\ h["write"] \in Nat /\ f["write"] \in Nat /\ h["write"] <= f["write"] + 1
  <2> DEFINE g == [f EXCEPT !["write"] = @ + 1]
  <2>1. g["read"] = f["read"] /\ g["write"] = f["write"] + 1 /\ f["write"] \in Nat
    BY DEF Dirs
  <2> HIDE DEF g
  <2>2. h = f \/ h = g
    BY <1>6 DEF g
  <2> QED BY <2>1, <2>2
<1>7. sem["write"] \in Nat /\ u.sem["read"] = sem["read"] /\ u.sem["write"] \in Nat /\ u.sem["write"] <= sem["write"] + 1
  BY <1>4, <1>6 DEF ComTyped
<1>8. v.sem["read"] = sem["read"] /\ v.sem["write"] \in Nat /\ v.sem["write"] <= sem["write"] + 2
  <2>1. u.sem \in [Dirs -> Nat]
    BY <1>4 DEF Links
  <2>2. v.sem["read"] = u.sem["read"] /\ v.sem["write"] \in Nat /\ v.sem["write"] <= u.sem["write"] + 1
    BY <1>5, <1>6, <2>1
  <2> QED BY <1>7, <2>2
<1>9. /\ t.request = request /\ t.out = out /\ (t.step = "get" <=> step = "get")
      /\ t.sem["read"] = sem["read"] /\ t.sem["write"] \in Nat
      /\ t.sem["write"] <= sem["write"] + 1 + (IF n = 2 THEN 1 ELSE 0)
      /\ ~Waiting("write") => t.step = step /\ t.listed = listed
  BY <1>1, <1>3, <1>4, <1>5, <1>7, <1>8
<1> QED BY <1>2, <1>9 DEF Become, Waiting

LEMMA UnitsTakes ==
  ASSUME ComTyped, UnitsInv, NEW n \in 0..2, HostTakes(n)
  PROVE  UnitsInv'
<1>1. in /\ in' = FALSE /\ at' = at /\ Handled(n, "write")
  BY DEF HostTakes, comTaskVars
<1>2. /\ request' = request /\ out' = out /\ (step' = "get" <=> step = "get")
      /\ sem'["read"] = sem["read"] /\ sem'["write"] \in Nat
      /\ sem'["write"] <= sem["write"] + 1 + (IF n = 2 THEN 1 ELSE 0)
  BY Takes
<1>3. /\ sem["write"] \in Nat /\ twice["write"] \in Nat
      /\ twice'["write"] = IF n = 2 THEN twice["write"] + 1 ELSE twice["write"]
  BY <1>1, TwiceCounts DEF Dirs, ComTyped
<1>13. (sem["read"] + Coming("read") <= Limit("read"))'
  <2>1. Coming("read")' = Coming("read") /\ Limit("read")' = Limit("read") /\ sem'["read"] = sem["read"]
    BY <1>1, <1>2 DEF Coming, InFlight, Limit, Waiting
  <2> QED BY <2>1 DEF UnitsInv, Dirs
<1>14. (sem["write"] + Coming("write") <= Limit("write"))'
  <2>1. Coming("write") = 1 /\ Coming("write")' = 0
    BY <1>1 DEF Coming, InFlight
  <2>2. Limit("write")' = Limit("write") + (IF n = 2 THEN 1 ELSE 0)
    BY <1>1, <1>2, <1>3 DEF Limit, Waiting
  <2>3. Limit("write") \in Nat /\ sem["write"] + Coming("write") <= Limit("write")
    BY Facts DEF UnitsInv, Dirs
  <2> QED BY <1>2, <1>3, <2>1, <2>2, <2>3
<1> QED BY <1>13, <1>14 DEF UnitsInv, Dirs

\* A step that touches neither a count nor a transfer.
LEMMA UnitsAside ==
  ASSUME ComTyped, ComTyped', UnitsInv, sem' = sem, out' = out, in' = in, twice' = twice,
         request'.remain = request.remain,
         step # "get" \/ (step' = step /\ at' = at)
  PROVE  UnitsInv'
<1>2. ASSUME NEW d \in Dirs PROVE (sem[d] + Coming(d) <= Limit(d))'
  <2>1. sem[d] \in Nat /\ Coming(d) \in 0..1 /\ Limit(d) \in Nat /\ Limit(d)' \in Nat
    BY Facts DEF Limit, ComTyped
  <2>2. Coming(d)' = Coming(d)
    BY DEF Coming, InFlight
  <2>3. Limit(d) <= Limit(d)'
    BY <2>1, Facts DEF Limit, Waiting
  <2>4. sem[d] + Coming(d) <= Limit(d)
    BY DEF UnitsInv
  <2> QED BY <2>1, <2>2, <2>3, <2>4
<1> QED BY <1>2 DEF UnitsInv

LEMMA UnitsTask ==
  ASSUME ComTyped, ComTyped', UnitsInv, ComStep \/ Timeout
  PROVE  UnitsInv'
<1> USE DEF comTaskVars, linkVars
<1>1. ASSUME Call PROVE UnitsInv'
  <2>1. request'.remain = request.remain
    <3>1. request' = request \/ request' = [request EXCEPT !.buf = at, !.pos = 0]
      BY <1>1 DEF Call
    <3>2. request \in ReadRequest
      BY DEF ComTyped
    <3> QED BY <3>1, <3>2 DEF ReadRequest
  <2>2. sem' = sem /\ out' = out /\ in' = in /\ twice' = twice /\ step # "get"
    BY <1>1 DEF Call
  <2> QED BY <2>1, <2>2, UnitsAside
<1>2. ASSUME Fire PROVE UnitsInv'
  <2>1. sem' = sem /\ twice' = twice /\ step = "fire" /\ step' = "get" /\ at' = at
    BY <1>2 DEF Fire
  <2>4. ASSUME NEW d \in Dirs PROVE (sem[d] + Coming(d) <= Limit(d))'
    <3>1. sem[d] + Coming(d) <= Limit(d)
      BY DEF UnitsInv
    <3>2. sem[d] \in Nat /\ Coming(d) \in 0..1 /\ Coming(d)' \in 0..1 /\ Limit(d) \in Nat /\ Limit(d)' \in Nat
      BY Facts DEF Coming, Limit, ComTyped
    <3>3. CASE Waiting(d)
      <4>1. Limit(d)' = Limit(d) + 1
        BY <2>1, <3>3, Facts DEF Limit, Waiting
      <4> QED BY <2>1, <3>1, <3>2, <4>1
    <3>4. CASE ~Waiting(d)
      <4>1. Limit(d)' = Limit(d)
        BY <2>1, <3>4 DEF Limit, Waiting
      <4>2. Coming(d)' = Coming(d)
        BY <1>2, <3>4 DEF Fire, Coming, InFlight, Waiting, Dir, Dirs
      <4> QED BY <2>1, <3>1, <4>1, <4>2
    <3> QED BY <3>3, <3>4
  <2> QED BY <2>4 DEF UnitsInv
<1>3. ASSUME Get PROVE UnitsInv'
  <2>1. /\ out' = out /\ in' = in /\ request' = request /\ twice' = twice /\ at' = at /\ step = "get"
        /\ step' # "get"
    BY <1>3 DEF Get, WaitOnly
  <2>2. \/ sem[Dir(at)] > 0 /\ sem' = [sem EXCEPT ![Dir(at)] = @ - 1]
        \/ sem[Dir(at)] = 0 /\ sem' = sem
    BY <1>3 DEF Get
  <2>3. Dir(at) \in Dirs
    BY DEF Dir, Dirs
  <2>5. ASSUME NEW d \in Dirs PROVE (sem[d] + Coming(d) <= Limit(d))'
    <3>1. /\ sem[d] + Coming(d) <= Limit(d) /\ Coming(d)' = Coming(d)
          /\ sem[d] \in Nat /\ Coming(d) \in 0..1 /\ Limit(d) \in Nat /\ twice[d] \in Nat
      BY <2>1, Facts DEF UnitsInv, Coming, InFlight
    <3>2. Limit(d)' = 1 + (IF d = "write" THEN twice[d] ELSE 0)
      BY <2>1 DEF Limit
    <3>3. CASE Dir(at) = d
      <4>1. Limit(d)' = Limit(d) - 1
        BY <2>1, <3>1, <3>2, <3>3 DEF Limit, Waiting
      <4>2. sem'[d] = sem[d] - 1 \/ (sem[d] = 0 /\ sem'[d] = 0)
        BY <2>2, <3>3 DEF ComTyped
      <4> QED BY <3>1, <3>2, <4>1, <4>2
    <3>4. CASE Dir(at) # d
      <4>1. sem'[d] = sem[d]
        BY <2>2, <2>3, <3>4 DEF ComTyped
      <4>2. Limit(d)' = Limit(d)
        BY <3>2, <3>4 DEF Limit, Waiting
      <4> QED BY <3>1, <4>1, <4>2
    <3> QED BY <3>3, <3>4
  <2> QED BY <2>5 DEF UnitsInv
<1>4. ASSUME Enlist \/ Sleep \/ StartTimer \/ Return PROVE UnitsInv'
  <2>1. sem' = sem /\ out' = out /\ in' = in /\ request' = request /\ twice' = twice /\ step # "get"
    BY <1>4 DEF Enlist, Sleep, StartTimer, Return, WaitOnly
  <2> QED BY <2>1, UnitsAside
<1>5. ASSUME Timeout PROVE UnitsInv'
  <2>1. /\ sem' = sem /\ out' = out /\ in' = in /\ request' = request /\ twice' = twice /\ at' = at
        /\ step # "get" \/ step' = step
    BY <1>5 DEF Timeout, WaitOnly
  <2> QED BY <2>1, UnitsAside
<1>6. ASSUME Dispatch \/ Version \/ GiveUp \/ Acked \/ WritePackage \/ Written \/ NextPackage
      PROVE  UnitsInv'
  <2>1. /\ sem' = sem /\ out' = out /\ in' = in /\ request' = request /\ twice' = twice
        /\ step \in {"ok", "failed"}
    BY <1>6 DEF Dispatch, Version, GiveUp, Acked, WritePackage, Written, NextPackage, Ok, Then, NextTransfer, Later
  <2> QED BY <2>1, UnitsAside
<1> QED BY <1>1, <1>2, <1>3, <1>4, <1>5, <1>6 DEF ComStep

LEMMA UnitsHost ==
  ASSUME ComTyped, ComTyped', UnitsInv, HostStep
  PROVE  UnitsInv'
<1> USE DEF comTaskVars, linkVars, waitVars
<1>1. ASSUME NEW n \in 0..2, NEW p, Arrive(p, n) PROVE UnitsInv'
  BY <1>1, UnitsArrive
<1>2. ASSUME NEW n \in 0..2, HostTakes(n) PROVE UnitsInv'
  BY <1>2, UnitsTakes
<1>3. ASSUME HostGivesUp \/ Configure PROVE UnitsInv'
  <2>1. sem' = sem /\ out' = out /\ in' = in /\ request' = request /\ twice' = twice /\ step' = step /\ at' = at
    BY <1>3 DEF HostGivesUp, Configure
  <2> QED BY <2>1, UnitsAside
<1>4. ASSUME Unplug PROVE UnitsInv'
  <2>1. /\ sem' = sem /\ request' = request /\ twice' = twice /\ step' = step /\ at' = at
        /\ ~out'.on /\ ~in'
    BY <1>4 DEF Unplug, Off
  <2>3. ASSUME NEW d \in Dirs PROVE (sem[d] + Coming(d) <= Limit(d))'
    <3>1. Coming(d)' = 0 /\ Limit(d)' = Limit(d) /\ sem[d] + Coming(d) <= Limit(d)
      BY <2>1 DEF Coming, InFlight, Limit, Waiting, UnitsInv
    <3> QED BY <2>1, <3>1, Facts
  <2> QED BY <2>3 DEF UnitsInv
<1> QED BY <1>1, <1>2, <1>3, <1>4 DEF HostStep, HostCommand, HostChunk, HostAnswer

(***************************************************************************)
(* The units of late transfers never pile up, however often the task gives *)
(* up, the configuration is lost and an event is lost or handled twice: of *)
(* reads one is left at most, of writes one and one for each completion    *)
(* that was handled twice (UnitsBounded).                                  *)
(***************************************************************************)
THEOREM UnitsNeverPileUp == ComSpec => []UnitsBounded
<1>1. ComInit => ComTyped /\ UnitsInv
  <2> SUFFICES ASSUME ComInit PROVE ComTyped /\ UnitsInv
    OBVIOUS
  <2>1. ComTyped
    BY TypedInit
  <2>2. \A d \in Dirs : sem[d] = 0 /\ Coming(d) = 0
    BY DEF ComInit, Dirs, Coming, InFlight, Off
  <2> QED BY <2>1, <2>2, Facts DEF UnitsInv
<1>2. ComTyped /\ UnitsInv /\ [ComNext]_comVars => ComTyped' /\ UnitsInv'
  <2> SUFFICES ASSUME ComTyped, UnitsInv, [ComNext]_comVars PROVE ComTyped' /\ UnitsInv'
    OBVIOUS
  <2>1. ComTyped'
    BY TypedNext
  <2>2. CASE UNCHANGED comVars
    BY <2>1, <2>2, UnitsAside DEF comVars, comTaskVars, linkVars, waitVars
  <2> QED BY <2>1, <2>2, UnitsTask, UnitsHost DEF ComNext
<1>3. ComTyped /\ UnitsInv => UnitsBounded
  <2> SUFFICES ASSUME ComTyped, UnitsInv, NEW d \in Dirs PROVE sem[d] <= Limit(d)
    BY DEF UnitsBounded, Limit, Dirs
  <2> QED BY Facts DEF UnitsInv
<1> QED BY <1>1, <1>2, <1>3, PTL DEF ComSpec

-----------------------------------------------------------------------------
(***************************************************************************)
(* Where the controller writes.  While no read has timed out and no event  *)
(* of the OUT endpoint was handled twice, the endpoint receives for        *)
(* nothing but the read in progress, and a unit of it that came too late   *)
(* for the test of sem_get_timeout keeps the task waiting until it times   *)
(* out.                                                                    *)
(***************************************************************************)
Armed ==
  /\ out.buf = at /\ request.buf = at /\ out.pos = request.pos
  /\ request.remain >= 1 /\ out.pos + request.remain = Size(at)

Ready == request.buf = at /\ request.pos = 0

\* The task is between the test of the count and the end of its wait, ...
InWait == step \in {"listed", "hung", "wait"} \/ (step = "back" /\ mark)
\* ... or on the way there, in a read.
InRead == at \in Reads /\ (step \in {"get", "enlist"} \/ (InWait /\ listed))

AsWritten == ~gaveUp /\ twice["read"] = 0

ReadingInv ==
  AsWritten =>
    /\ stray => LongerLater
    /\ at \in Reads => step # "failed"
    /\ at \in Reads /\ step = "fire" => Ready
    /\ out.on => InRead /\ sem["read"] = 0 /\ Armed
    /\ sem["read"] > 0 => at \in Reads /\ sem["read"] = 1 /\ (step \in {"get", "enlist"} \/ InWait)

\* What com_download_img allocated its buffer for.
RoomInv ==
  /\ at \in Download => room = length[1]
  /\ \A c \in 1..Chunks : mem["cmd"][c].kind = "download" => mem["cmd"][c].k = 1

LEMMA RoomArrives ==
  ASSUME ComTyped, RoomInv, NEW p, NEW n \in 0..2, Arrive(p, n),
         p.kind = "download" /\ out.buf = "cmd" => p.k = 1
  PROVE  RoomInv'
<1>1. room' = room /\ length' = length /\ at' = at
  BY DEF Arrive, comTaskVars
<1>2. ASSUME NEW c \in 1..Chunks, mem'["cmd"][c].kind = "download" PROVE mem'["cmd"][c].k = 1
  <2>1. mem \in [Reads -> [1..Chunks -> Pieces]] /\ out.buf \in Reads /\ "cmd" \in Reads
    BY DEF ComTyped, Armings, Reads
  <2>2. CASE mem' = mem
    BY <1>2, <2>2 DEF RoomInv
  <2>3. CASE mem' = [mem EXCEPT ![out.buf][out.pos + 1] = p]
    <3> DEFINE f == [mem[out.buf] EXCEPT ![out.pos + 1] = p]
    <3>1. mem' = [mem EXCEPT ![out.buf] = f]
      BY <2>3
    <3>2. f[c] = p \/ f[c] = mem[out.buf][c]
      BY <2>1
    <3> HIDE DEF f
    <3>3. mem'["cmd"] = IF out.buf = "cmd" THEN f ELSE mem["cmd"]
      BY <2>1, <3>1
    <3> QED BY <1>2, <3>2, <3>3 DEF RoomInv
  <2> QED BY <2>2, <2>3 DEF Arrive
<1> QED BY <1>1, <1>2 DEF RoomInv

LEMMA RoomNext ==
  ASSUME ComTyped, RoomInv, [ComNext]_comVars
  PROVE  RoomInv'
<1> USE DEF comTaskVars, linkVars, waitVars
<1>1. CASE UNCHANGED comVars
  BY <1>1 DEF comVars, RoomInv
<1>2. ASSUME at' = at, room' = room, length' = length, mem' = mem PROVE RoomInv'
  BY <1>2 DEF RoomInv
<1>3. CASE Call \/ Fire \/ Get \/ Enlist \/ Sleep \/ StartTimer \/ Timeout \/ Return
  BY <1>2, <1>3 DEF Call, Fire, Get, Enlist, Sleep, StartTimer, Timeout, Return, WaitOnly
<1>4. ASSUME NEW a, NextTransfer(a) \/ Later(a), a \in Download => room' = length[1] PROVE RoomInv'
  <2>1. mem'["cmd"] = mem["cmd"] /\ length' = length /\ at' = a
    BY <1>4 DEF NextTransfer, Later, Then, Freed, Reads
  <2> QED BY <1>4, <2>1 DEF RoomInv
<1>5. CASE Dispatch
  <2>1. mem["cmd"][1].kind = "download" => mem["cmd"][1].k = 1
    BY Sizes DEF RoomInv
  <2>2. \/ \E a \in {"heart", "vack", "cmd"} : NextTransfer(a) \/ Later(a)
        \/ NextTransfer("ack1") /\ mem["cmd"][1].kind = "download" /\ room' = length[mem["cmd"][1].k]
    BY <1>5 DEF Dispatch
  <2> QED BY <1>4, <2>1, <2>2 DEF Download
<1>6. CASE Version \/ GiveUp
  <2>1. \E a \in {"vdata", "vread", "cmd"} : NextTransfer(a) \/ Later(a)
    BY <1>6 DEF Version, GiveUp
  <2> QED BY <1>4, <2>1 DEF Download
<1>7. CASE Acked \/ WritePackage \/ Written \/ NextPackage
  <2>1. \E a : NextTransfer(a) \/ Later(a)
    BY <1>7 DEF Acked, WritePackage, Written, NextPackage
  <2>2. at \in Download /\ room' = room
    BY <1>7 DEF Acked, WritePackage, Written, NextPackage, Ok, Download, Keep
  <2> QED BY <1>4, <2>1, <2>2 DEF RoomInv
<1>8. ASSUME NEW n \in 0..2, NEW p \in Commands, HostCommand(p, n) PROVE RoomInv'
  <2>1. p.kind = "download" /\ out.buf = "cmd" => p.k = 1
    BY <1>8 DEF HostCommand, MayAsk
  <2> QED BY <1>8, <2>1, RoomArrives DEF HostCommand
<1>9. ASSUME NEW n \in 0..2, HostChunk(n) \/ HostAnswer(n) PROVE RoomInv'
  <2>1. Piece("data", host.k, host.c + 1, 0).kind # "download" /\ Piece("ack", 0, 0, 0).kind # "download"
    BY DEF Piece
  <2> QED BY <1>9, <2>1, RoomArrives DEF HostChunk, HostAnswer
<1>10. ASSUME NEW n \in 0..2, HostTakes(n) PROVE RoomInv'
  BY <1>2, <1>10 DEF HostTakes
<1>11. CASE HostGivesUp \/ Unplug \/ Configure
  BY <1>2, <1>11 DEF HostGivesUp, Unplug, Configure
<1> QED BY <1>1, <1>3, <1>5, <1>6, <1>7, <1>8, <1>9, <1>10, <1>11 DEF ComNext, ComStep, HostStep

\* Fire arms the endpoint for the read that it starts.
LEMMA FireArms ==
  ASSUME ComTyped, at \in Reads, Ready, Fire
  PROVE  Armed' /\ out'.on = conf
<1> DEFINE m == Size(at)
<1>1. m \in Nat /\ m >= 1 /\ request \in ReadRequest
  BY Sizes DEF ComTyped
<1>2. /\ request' = [request EXCEPT !.remain = m]
      /\ out' = [on |-> conf, buf |-> request.buf, pos |-> request.pos] /\ at' = at
      /\ pkg' = pkg /\ length' = length
  BY DEF Fire, comTaskVars
<1>3. m' = m
  BY <1>2 DEF Size
<1> HIDE DEF m
<1>4. request'.buf = at /\ request'.pos = 0 /\ request'.remain = m
  BY <1>1, <1>2 DEF Ready, ReadRequest
<1>5. out'.buf = at /\ out'.pos = 0 /\ out'.on = conf
  BY <1>2 DEF Ready
<1>6. 0 + m = m
  BY <1>1
<1> QED BY <1>1, <1>2, <1>3, <1>4, <1>5, <1>6 DEF Armed, m

LEMMA ReadingTask ==
  ASSUME ComTyped, ReadingInv, ComStep \/ Timeout, AsWritten'
  PROVE  ReadingInv'
<1> USE DEF comTaskVars, linkVars
<1>0. AsWritten /\ sem["read"] \in Nat /\ sem["write"] \in Nat
  <2>1. gaveUp' = FALSE => gaveUp = FALSE
    BY DEF ComStep, Call, Fire, Get, Enlist, Sleep, StartTimer, Timeout, Return, Dispatch, Version, GiveUp,
           Acked, WritePackage, Written, NextPackage, NextTransfer, Later, Then, ComTyped
  <2>2. twice' = twice /\ gaveUp \in BOOLEAN /\ (gaveUp => gaveUp')
    BY DEF ComStep, Call, Fire, Get, Enlist, Sleep, StartTimer, Timeout, Return, Dispatch, Version, GiveUp,
           Acked, WritePackage, Written, NextPackage, NextTransfer, Later, Then, WaitOnly, ComTyped
  <2> QED BY <2>2 DEF AsWritten, ComTyped, Dirs
<1>1. ASSUME Call PROVE ReadingInv'
  <2>1. ~out.on /\ ~(sem["read"] > 0) /\ (stray => LongerLater)
    BY <1>0, <1>1 DEF Call, ReadingInv, InRead, InWait
  <2>2. /\ out' = out /\ sem' = sem /\ at' = at /\ stray' = stray /\ length' = length
        /\ step' = IF conf THEN "fire" ELSE "get"
    BY <1>1 DEF Call
  <2>3. at \in Reads /\ conf => Ready'
    <3>1. request \in ReadRequest
      BY DEF ComTyped
    <3> QED BY <1>1, <3>1 DEF Call, Ready, ReadRequest
  <2> QED BY <2>1, <2>2, <2>3 DEF ReadingInv, LongerLater
<1>2. ASSUME Fire PROVE ReadingInv'
  <2>1. ~out.on /\ ~(sem["read"] > 0) /\ (stray => LongerLater) /\ (at \in Reads => Ready)
    BY <1>0, <1>2 DEF Fire, ReadingInv, InRead, InWait
  <2>2. /\ sem' = sem /\ at' = at /\ stray' = stray /\ length' = length /\ step' = "get"
        /\ (at \notin Reads => out' = out)
    BY <1>2 DEF Fire
  <2>3. at \in Reads => Armed'
    BY <1>2, <2>1, FireArms
  <2> QED BY <1>0, <2>1, <2>2, <2>3 DEF ReadingInv, InRead, LongerLater
<1>3. ASSUME Get PROVE ReadingInv'
  <2>1. /\ at' = at /\ out' = out /\ request' = request /\ stray' = stray /\ length' = length /\ pkg' = pkg
        /\ (stray => LongerLater) /\ step = "get" /\ step' \in {"ok", "enlist"}
    BY <1>0, <1>3 DEF Get, WaitOnly, ReadingInv
  <2>2. Armed => Armed'
    BY <2>1 DEF Armed, Size
  <2>3. CASE at \in Reads
    <3>1. \/ sem["read"] > 0 /\ sem'["read"] = sem["read"] - 1 /\ step' = "ok"
          \/ sem["read"] = 0 /\ sem' = sem /\ step' = "enlist"
      BY <1>3, <2>3 DEF Get, ComTyped, Dir, Dirs
    <3> QED BY <1>0, <2>1, <2>2, <2>3, <3>1 DEF ReadingInv, InRead, LongerLater
  <2>4. CASE at \notin Reads
    <3>1. sem'["read"] = sem["read"]
      <4>1. Dir(at) = "write"
        BY <2>4 DEF Dir
      <4>2. sem' = sem \/ sem' = [sem EXCEPT !["write"] = @ - 1]
        BY <1>3, <4>1 DEF Get
      <4> QED BY <4>2 DEF ComTyped, Dirs
    <3> QED BY <1>0, <2>1, <2>4, <3>1 DEF ReadingInv, InRead, LongerLater
  <2> QED BY <2>3, <2>4
<1>4. ASSUME Enlist \/ Sleep \/ StartTimer \/ Timeout PROVE ReadingInv'
  <2>1. /\ at' = at /\ out' = out /\ request' = request /\ stray' = stray /\ length' = length /\ pkg' = pkg
        /\ sem' = sem
    BY <1>4 DEF Enlist, Sleep, StartTimer, Timeout, WaitOnly
  <2>2. Armed => Armed'
    BY <2>1 DEF Armed, Size
  <2>3. /\ InRead => InRead'
        /\ (at \in Reads /\ (step \in {"get", "enlist"} \/ InWait)) => (step' \in {"get", "enlist"} \/ InWait')
        /\ step' = "failed" => step = "failed"
        /\ step' = "fire" => step = "fire"
    BY <1>4, <2>1 DEF Enlist, Sleep, StartTimer, Timeout, InRead, InWait
  <2>4. Ready => Ready'
    BY <2>1 DEF Ready
  <2> QED BY <1>0, <2>1, <2>2, <2>3, <2>4 DEF ReadingInv, LongerLater
<1>5. ASSUME Return PROVE ReadingInv'
  <2>1. /\ at' = at /\ out' = out /\ request' = request /\ stray' = stray /\ length' = length
        /\ sem' = sem /\ step = "back" /\ step' = IF mark THEN "failed" ELSE "ok"
        /\ ~(mark /\ at \in Reads)
    BY <1>5 DEF Return, WaitOnly, AsWritten
  <2> QED BY <1>0, <2>1 DEF ReadingInv, InRead, InWait, LongerLater
<1>6. ASSUME Dispatch \/ Version \/ GiveUp \/ Acked \/ WritePackage \/ Written \/ NextPackage
      PROVE  ReadingInv'
  <2>1. /\ sem' = sem /\ out' = out /\ stray' = stray /\ length' = length /\ step \in {"ok", "failed"}
        /\ step' = "call"
    BY <1>6 DEF Dispatch, Version, GiveUp, Acked, WritePackage, Written, NextPackage, Ok, Then, NextTransfer, Later
  <2>2. ~out.on /\ ~(sem["read"] > 0) /\ (stray => LongerLater)
    BY <1>0, <2>1 DEF ReadingInv, InRead, InWait
  <2> QED BY <2>1, <2>2 DEF ReadingInv, LongerLater
<1> QED BY <1>1, <1>2, <1>3, <1>4, <1>5, <1>6 DEF ComStep

LEMMA ReadingArrive ==
  ASSUME ComTyped, RoomInv, ReadingInv, NEW p, NEW n \in 0..2, Arrive(p, n), AsWritten'
  PROVE  ReadingInv'
<1> DEFINE s == [Link EXCEPT !.out = Off]
<1>1. /\ at' = at /\ pkg' = pkg /\ length' = length /\ gaveUp' = gaveUp /\ out.on /\ room' = room
      /\ mark' = mark
  BY DEF Arrive, comTaskVars, Become
<1>2. n # 2 /\ twice["read"] = 0
  <2>1. twice'["read"] = IF n = 2 THEN twice["read"] + 1 ELSE twice["read"]
    BY TwiceCounts DEF Arrive, Dirs
  <2>2. twice["read"] \in Nat
    BY DEF ComTyped, Dirs
  <2> QED BY <2>1, <2>2 DEF AsWritten
<1>3. InRead /\ sem["read"] = 0 /\ Armed /\ (stray => LongerLater)
  BY <1>1, <1>2 DEF AsWritten, ReadingInv
<1>4. /\ s \in Links /\ s.out = Off /\ s.step = step /\ s.sem = sem /\ s.listed = listed
      /\ s.request = request /\ ~Off.on
  BY LinkOff DEF Off
<1>5. PICK t \in Links :
        /\ (n = 0 /\ t = s) \/ (n = 1 /\ t = data_notify(s))
        /\ step' = t.step /\ sem' = t.sem /\ listed' = t.listed /\ request' = t.request /\ out' = t.out
  <2>1. Become(CASE n = 0 -> s [] n = 1 -> data_notify(s) [] n = 2 -> data_notify(data_notify(s)))
    BY DEF Arrive
  <2> HIDE DEF s
  <2> QED BY <1>2, <1>4, <2>1, Handles
<1> HIDE DEF s
<1>6. /\ out.pos \in Nat /\ request.remain \in Nat /\ request.pos \in Nat /\ Size(at) \in Nat
      /\ sem["read"] \in Nat
  BY Sizes DEF ComTyped, Armings, ReadRequest, Dirs
<1>7. stray' => LongerLater'
  <2>1. stray' => stray \/ ~Live(out.buf) \/ ~(out.pos < Room(out.buf))
    BY DEF Arrive
  <2>2. Live(out.buf)
    <3>1. at \in Reads /\ out.buf = at
      BY <1>3 DEF InRead, Armed
    <3> QED BY <3>1 DEF Live, Reads, Download
  <2>3. out.pos < Size(at)
    BY <1>3, <1>6 DEF Armed
  <2>4. out.pos < Room(out.buf) \/ LongerLater
    <3>1. CASE at = "img"
      <4>1. Room(out.buf) = length[1]
        BY <1>3, <3>1 DEF Room, Armed, RoomInv, Download
      <4>2. Size(at) = length[pkg] /\ pkg \in 1..N /\ length[pkg] \in Nat /\ length[1] \in Nat
        BY <3>1, ComAssumption DEF Size, ComTyped
      <4>3. length[pkg] <= length[1] \/ LongerLater
        BY <4>2, ComAssumption DEF LongerLater
      <4> QED BY <1>6, <2>3, <4>1, <4>2, <4>3
    <3>2. CASE at # "img"
      BY <1>3, <2>3, <3>2 DEF Armed, Size, Room
    <3> QED BY <3>1, <3>2
  <2> QED BY <1>1, <1>3, <2>1, <2>2, <2>4 DEF LongerLater
<1>8. CASE t = s
  <2>1. step' = step /\ sem' = sem /\ ~out'.on /\ request' = request
    BY <1>4, <1>5, <1>8
  <2>2. step # "failed" /\ step # "fire"
    BY <1>3 DEF InRead, InWait
  <2> QED BY <1>3, <1>7, <2>1, <2>2 DEF ReadingInv
<1>9. CASE t = data_notify(s)
  <2>1. Waiting("read")
    BY <1>3 DEF InRead, Waiting, Dir
  <2>2. \/ request.remain = 0
        \/ /\ request.remain = 1 /\ out' = Off
           /\ \/ listed /\ sem' = sem /\ step' = Awake(step)
              \/ ~listed /\ sem' = [sem EXCEPT !["read"] = @ + 1] /\ step' = step
        \/ /\ request.remain > 1 /\ sem' = sem /\ step' = step /\ listed' = listed
           /\ request'.buf = request.buf /\ request'.remain = request.remain - 1
           /\ request'.pos = request.pos + 1
           /\ out'.on /\ out'.buf = request.buf /\ out'.pos = request.pos + 1
    <3>1. /\ s.request = request /\ s.listed = listed /\ s.sem = sem /\ s.step = step /\ s.out = Off
      BY <1>4
    <3>2. \/ s.request.remain = 0
          \/ /\ s.request.remain = 1 /\ t.out = s.out
             /\ \/ s.listed /\ t.sem = s.sem /\ t.step = Awake(s.step)
                \/ ~s.listed /\ t.sem = [s.sem EXCEPT !["read"] = @ + 1] /\ t.step = s.step
          \/ /\ s.request.remain > 1 /\ t.sem = s.sem /\ t.step = s.step /\ t.listed = s.listed
             /\ t.request.buf = s.request.buf /\ t.request.remain = s.request.remain - 1
             /\ t.request.pos = s.request.pos + 1
             /\ t.out.on /\ t.out.buf = s.request.buf /\ t.out.pos = s.request.pos + 1
      BY <1>4, <1>9, <2>1, Notified
    <3> QED BY <1>5, <3>1, <3>2, Zenon
  <2>3. request.remain >= 1
    BY <1>3 DEF Armed
  <2>4. CASE request.remain = 1 /\ out' = Off /\ listed /\ sem' = sem /\ step' = Awake(step)
    <3>1. step \in {"get", "enlist", "listed", "hung", "wait", "back"}
      BY <1>3 DEF InRead, InWait
    <3>2. step' # "failed" /\ step' # "fire"
      BY <2>4, <3>1 DEF Awake
    <3> QED BY <1>1, <1>3, <1>4, <1>7, <2>4, <3>2 DEF ReadingInv
  <2>5. CASE request.remain = 1 /\ out' = Off /\ ~listed /\ sem' = [sem EXCEPT !["read"] = @ + 1] /\ step' = step
    <3>1. sem'["read"] = 1
      BY <1>3, <2>5 DEF ComTyped, Dirs
    <3>2. at \in Reads /\ step \in {"get", "enlist"}
      BY <1>3, <2>5 DEF InRead
    <3> QED BY <1>1, <1>3, <1>4, <1>7, <2>5, <3>1, <3>2 DEF ReadingInv
  <2>6. CASE /\ request.remain > 1 /\ sem' = sem /\ step' = step /\ listed' = listed
             /\ request'.buf = request.buf /\ request'.remain = request.remain - 1
             /\ request'.pos = request.pos + 1
             /\ out'.on /\ out'.buf = request.buf /\ out'.pos = request.pos + 1
    <3>1. Size(at)' = Size(at)
      BY <1>1 DEF Size
    <3>2. Armed'
      BY <1>1, <1>3, <1>6, <2>6, <3>1 DEF Armed
    <3>3. InRead' /\ step' # "failed" /\ step' # "fire"
      BY <1>1, <1>3, <2>6 DEF InRead, InWait
    <3> QED BY <1>3, <1>7, <2>6, <3>2, <3>3 DEF ReadingInv
  <2> QED BY <1>6, <2>2, <2>3, <2>4, <2>5, <2>6
<1> QED BY <1>5, <1>8, <1>9

LEMMA ReadingHost ==
  ASSUME ComTyped, RoomInv, ReadingInv, HostStep, AsWritten'
  PROVE  ReadingInv'
<1> USE DEF comTaskVars, linkVars, waitVars
<1>1. ASSUME NEW p, NEW n \in 0..2, Arrive(p, n) PROVE ReadingInv'
  BY <1>1, ReadingArrive
<1>2. ASSUME NEW n \in 0..2, HostTakes(n) PROVE ReadingInv'
  <2>1. /\ at' = at /\ stray' = stray /\ length' = length /\ pkg' = pkg /\ gaveUp' = gaveUp /\ mark' = mark
        /\ twice'["read"] = twice["read"]
    BY <1>2, TwiceCounts DEF HostTakes, Become, Dirs
  <2>2. /\ request' = request /\ out' = out /\ sem'["read"] = sem["read"]
        /\ Dir(at) = "read" => step' = step /\ listed' = listed
    BY <1>2, Takes
  <2>3. at \in Reads => step' = step /\ listed' = listed
    BY <2>2 DEF Dir
  <2>4. Armed => Armed'
    BY <2>1, <2>2 DEF Armed, Size
  <2>5. Ready => Ready'
    BY <2>1, <2>2 DEF Ready
  <2>6. InRead => InRead'
    BY <2>1, <2>3 DEF InRead, InWait
  <2> QED BY <2>1, <2>2, <2>3, <2>4, <2>5, <2>6 DEF ReadingInv, AsWritten, LongerLater, InWait
<1>3. ASSUME HostGivesUp \/ Configure PROVE ReadingInv'
  BY <1>3 DEF HostGivesUp, Configure, ReadingInv, AsWritten, Armed, Ready, Size, InRead, InWait, LongerLater
<1>4. ASSUME Unplug PROVE ReadingInv'
  BY <1>4 DEF Unplug, ReadingInv, AsWritten, Ready, Off, InRead, InWait, LongerLater
<1> QED BY <1>1, <1>2, <1>3, <1>4 DEF HostStep, HostCommand, HostChunk, HostAnswer

(***************************************************************************)
(* The controller writes to no memory that is not the buffer's, unless a   *)
(* read has timed out, a later package is longer than the first or an      *)
(* event was handled twice (NoStray).                                      *)
(***************************************************************************)
THEOREM WritesStayInside == ComSpec => []NoStray
<1>1. ComInit => ComTyped /\ RoomInv /\ ReadingInv
  <2> SUFFICES ASSUME ComInit PROVE ComTyped /\ RoomInv /\ ReadingInv
    OBVIOUS
  <2>1. RoomInv
    BY DEF ComInit, RoomInv, Download, NoPiece, Piece, Reads
  <2>2. sem["read"] = 0 /\ ~out.on /\ ~stray /\ step = "call"
    BY DEF ComInit, Off
  <2> QED BY <2>1, <2>2, TypedInit DEF ReadingInv
<1>2. ComTyped /\ RoomInv /\ ReadingInv /\ [ComNext]_comVars => ComTyped' /\ RoomInv' /\ ReadingInv'
  <2> SUFFICES ASSUME ComTyped, RoomInv, ReadingInv, [ComNext]_comVars
               PROVE  ComTyped' /\ RoomInv' /\ ReadingInv'
    OBVIOUS
  <2>1. ASSUME UNCHANGED comVars PROVE ReadingInv'
    <3>1. /\ UNCHANGED <<gaveUp, twice, stray, at, step, out, sem, request, listed, mark, length, pkg>>
      BY <2>1 DEF comVars, comTaskVars, linkVars, waitVars
    <3> QED BY <3>1 DEF ReadingInv, AsWritten, Armed, Ready, Size, InRead, InWait, LongerLater
  <2>2. ASSUME ~AsWritten' PROVE ReadingInv'
    BY <2>2 DEF ReadingInv
  <2>3. ASSUME ComNext, AsWritten' PROVE ReadingInv'
    BY <2>3, ReadingTask, ReadingHost DEF ComNext
  <2>4. ReadingInv'
    BY <2>1, <2>2, <2>3
  <2> QED BY <2>4, TypedNext, RoomNext
<1>3. ComTyped /\ ReadingInv => NoStray
  BY DEF ReadingInv, AsWritten, NoStray, ComTyped, Dirs
<1> QED BY <1>1, <1>2, <1>3, PTL DEF ComSpec

=============================================================================
