----------------------------- MODULE KernelLog -----------------------------
(***************************************************************************)
(* The kernel log (kernel/printk/log.c) and its way to the console         *)
(* (arch/arm/board/keyboard/arch_console.c): messages go into the ring of  *)
(* FifoBuf, and from there through log_buf to the serial port, by DMA from *)
(* a task, by polling before the kernel runs and from a handler.           *)
(*                                                                         *)
(* The calls of FifoBuf run with interrupts off; everything else may be    *)
(* interrupted by the DMA handler, by another task or by a handler that    *)
(* logs, so each access to dma_transport and to log_buf is a step.  The    *)
(* DMA controller moves one byte at a time.  The bytes of the messages are *)
(* numbered in the order in which the ring takes them.                     *)
(***************************************************************************)
EXTENDS FifoBuf, FiniteSetsExt

CONSTANTS
  Writer,       \* tasks that log; one of them runs the boot code before
  DmaSize,      \* UART_LOG_DMA_BUF_SIZE
  MaxMsg,       \* PR_LOG_BUG_SIZE, the longest message
  HandlerLogs,  \* whether an interrupt handler logs
  MaxBytes      \* bound: the bytes the ring takes in all

ASSUME LogAssumption ==
  /\ MaxMsg \in 1..DmaSize /\ DmaSize \in Nat
  /\ HandlerLogs \in BOOLEAN
  /\ MaxBytes \in Nat /\ 0..MaxBytes \subseteq Byte

VARIABLES
  kernel_running,
  dma_transport,
  log_buf,        \* the memory DMA reads
  dma,            \* the DMA stream: the next byte and how many are left
  tcif,           \* the stream's interrupt is pending
  dma_irq,        \* the DMA handler is active and has read that many bytes,
                  \* or None
  handler,        \* a handler that logs is between its two critical sections
  stage, len,     \* where each task is in write_log, and its variable len
  accepted,       \* history: how many bytes the ring has taken
  out,            \* history: the bytes that have left through the port
  raced           \* history: log_buf was taken by two callers at once

outVars == <<log_buf, dma, tcif, out>>
irqVars == <<dma_irq, handler>>
logVars == <<fifoVars, outVars, irqVars, kernel_running, dma_transport, stage, len, accepted, raced>>

None == DmaSize + 1

Stage == {"idle", "send", "read", "mark", "start", "poll", "usart"}

LogTypeOK ==
  /\ TypeOK
  /\ kernel_running \in BOOLEAN /\ dma_transport \in BOOLEAN
  /\ log_buf \in [1..DmaSize -> Byte]
  /\ dma \in [next : 1..(DmaSize + 1), left : 0..DmaSize]
  /\ tcif \in BOOLEAN /\ raced \in BOOLEAN
  /\ dma_irq \in 0..None /\ handler \in BOOLEAN
  /\ stage \in [Writer -> Stage] /\ len \in [Writer -> 0..DmaSize]
  /\ accepted \in 0..MaxBytes

\* log_server_init; what the memory holds does not matter.
LogInit ==
  /\ mem = [a \in Addr |-> 0]
  /\ read = 0 /\ write = 0 /\ free_size = Size /\ moved = <<>>
  /\ kernel_running = FALSE /\ dma_transport = FALSE
  /\ log_buf = [k \in 1..DmaSize |-> 0]
  /\ dma = [next |-> 1, left |-> 0] /\ tcif = FALSE
  /\ dma_irq = None /\ handler = FALSE
  /\ stage = [t \in Writer |-> "idle"] /\ len = [t \in Writer |-> 0]
  /\ accepted = 0 /\ out = <<>> /\ raced = FALSE

-----------------------------------------------------------------------------
\* Tasks execute while no handler is active.
Thread == dma_irq = None /\ ~handler

GoTo(t, s) == stage' = [stage EXCEPT ![t] = s]

\* The next n bytes to log, if the bound allows them.
Message(n) == [k \in 1..n |-> accepted + k - 1]
Put(n) ==
  /\ accepted + n <= MaxBytes
  /\ write_fifo_buf_size(Message(n))
  /\ accepted' = accepted + Len(moved')

\* read_log: what there is, up to the size of log_buf.
Ask == Min({Used, DmaSize})
read_log == ReadSplit(Ask, FALSE) \/ ReadWhole(Ask, FALSE)
Fill == log_buf' = [k \in 1..DmaSize |-> IF k <= Len(moved') THEN moved'[k] ELSE log_buf[k]]

\* Somebody else reads into log_buf or sends what is in it.
Others(t) == {u \in Writer \ {t} : stage[u] \in {"read", "mark", "start", "poll", "usart"}}
Sending ==
  \/ dma.left > 0 \/ dma_irq \in 1..DmaSize
  \/ \E t \in Writer : stage[t] \in {"mark", "start", "usart"}

\* Before the kernel runs there is one thread of code.
Alone(t) == kernel_running \/ \A u \in Writer \ {t} : stage[u] = "idle"

\* write_log puts the message into the ring, or loses it, and goes on to
\* send_to_console.
WriteLog(t, n) ==
  /\ Thread /\ stage[t] = "idle" /\ Alone(t)
  /\ Put(n) /\ GoTo(t, "send")
  /\ UNCHANGED <<outVars, irqVars, kernel_running, dma_transport, len, raced>>

\* Mutant: dma_transport is not tested.
send_always(t) ==
  /\ Thread /\ stage[t] = "send"
  /\ GoTo(t, IF kernel_running THEN "read" ELSE "poll")
  /\ raced' = (raced \/ Others(t) # {})
  /\ UNCHANGED <<fifoVars, outVars, irqVars, kernel_running, dma_transport, len, accepted>>

SendToConsole(t) ==
  /\ Thread /\ stage[t] = "send"
  /\ \/ ~kernel_running /\ GoTo(t, "poll") /\ UNCHANGED raced
     \/ kernel_running /\ dma_transport /\ GoTo(t, "idle") /\ UNCHANGED raced
     \/ /\ kernel_running /\ ~dma_transport /\ GoTo(t, "read")
        /\ raced' = (raced \/ Others(t) # {})
  /\ UNCHANGED <<fifoVars, outVars, irqVars, kernel_running, dma_transport, len, accepted>>

ReadLog(t) ==
  /\ Thread /\ stage[t] \in {"read", "poll"}
  /\ read_log /\ Fill
  /\ len' = [len EXCEPT ![t] = Len(moved')]
  /\ GoTo(t, IF moved' = <<>> THEN "idle"
             ELSE IF stage[t] = "read" THEN "mark" ELSE "usart")
  /\ UNCHANGED <<dma, tcif, out, irqVars, kernel_running, dma_transport, accepted, raced>>

MarkTransport(t) ==
  /\ Thread /\ stage[t] = "mark"
  /\ dma_transport' = TRUE /\ GoTo(t, "start")
  /\ UNCHANGED <<fifoVars, outVars, irqVars, kernel_running, len, accepted, raced>>

StartDma(t) ==
  /\ Thread /\ stage[t] = "start"
  /\ dma' = [next |-> 1, left |-> len[t]] /\ GoTo(t, "idle")
  /\ UNCHANGED <<fifoVars, log_buf, tcif, out, irqVars, kernel_running, dma_transport, len, accepted, raced>>

\* usart_send with interrupts off, before the kernel runs.
UsartSend(t) ==
  /\ Thread /\ stage[t] = "usart"
  /\ out' = out \o SubSeq(log_buf, 1, len[t]) /\ GoTo(t, "idle")
  /\ UNCHANGED <<fifoVars, log_buf, dma, tcif, irqVars, kernel_running, dma_transport, len, accepted, raced>>

KernelRuns ==
  /\ Thread /\ ~kernel_running /\ \A t \in Writer : stage[t] = "idle"
  /\ kernel_running' = TRUE
  /\ UNCHANGED <<fifoVars, outVars, irqVars, dma_transport, stage, len, accepted, raced>>

-----------------------------------------------------------------------------
DmaByte ==
  /\ dma.left > 0
  /\ out' = Append(out, log_buf[dma.next])
  /\ dma' = [next |-> dma.next + 1, left |-> dma.left - 1]
  /\ tcif' = (dma.left = 1)
  /\ UNCHANGED <<fifoVars, log_buf, irqVars, kernel_running, dma_transport, stage, len, accepted, raced>>

\* DMA2_Stream7_IRQHandler reads the next bytes ...
DmaIrq ==
  /\ tcif /\ Thread
  /\ tcif' = FALSE
  /\ read_log /\ Fill
  /\ dma_irq' = Len(moved')
  /\ UNCHANGED <<dma, out, handler, kernel_running, dma_transport, stage, len, accepted, raced>>

\* Mutant: the handler does not clear dma_transport.
dma_irq_keeps ==
  /\ ~handler /\ dma_irq # None
  /\ \/ dma_irq = 0 /\ UNCHANGED dma
     \/ dma_irq > 0 /\ dma' = [next |-> 1, left |-> dma_irq]
  /\ dma_irq' = None
  /\ UNCHANGED <<fifoVars, log_buf, tcif, out, handler, kernel_running, dma_transport, stage, len, accepted, raced>>

\* ... and sends them, or ends the transport.
DmaIrqEnd ==
  /\ ~handler /\ dma_irq # None
  /\ \/ dma_irq = 0 /\ dma_transport' = FALSE /\ UNCHANGED dma
     \/ dma_irq > 0 /\ dma' = [next |-> 1, left |-> dma_irq] /\ UNCHANGED dma_transport
  /\ dma_irq' = None
  /\ UNCHANGED <<fifoVars, log_buf, tcif, out, handler, kernel_running, stage, len, accepted, raced>>

\* A more urgent handler logs: write_log ...
HandlerPut(n) ==
  /\ HandlerLogs /\ ~handler
  /\ Put(n)
  /\ handler' = TRUE
  /\ UNCHANGED <<outVars, dma_irq, kernel_running, dma_transport, stage, len, raced>>

\* ... and send_to_console, which polls: interrupt_nest is not 0.
HandlerSend ==
  /\ handler
  /\ read_log /\ Fill
  /\ out' = out \o moved'
  /\ handler' = FALSE
  /\ raced' = (raced \/ Sending)
  /\ UNCHANGED <<dma, tcif, dma_irq, kernel_running, dma_transport, stage, len, accepted>>

-----------------------------------------------------------------------------
WriterGoesOn(t) ==
  SendToConsole(t) \/ ReadLog(t) \/ MarkTransport(t) \/ StartDma(t) \/ UsartSend(t)

LogNext ==
  \/ \E n \in 1..MaxMsg : (\E t \in Writer : WriteLog(t, n)) \/ HandlerPut(n)
  \/ \E t \in Writer : WriterGoesOn(t)
  \/ KernelRuns \/ DmaByte \/ DmaIrq \/ DmaIrqEnd \/ HandlerSend

\* The DMA controller and the handlers go on, and so does a task that is
\* inside write_log.
LogFairness ==
  /\ WF_logVars(DmaByte) /\ WF_logVars(DmaIrq) /\ WF_logVars(DmaIrqEnd)
  /\ WF_logVars(HandlerSend)
  /\ \A t \in Writer : SF_logVars(WriterGoesOn(t))

LogSpec == LogInit /\ [][LogNext]_logVars /\ LogFairness

-----------------------------------------------------------------------------
\* The bytes of log_buf that are still to be sent.
Pending ==
  LET t == CHOOSE u \in Writer : stage[u] \in {"mark", "start", "usart"}
  IN  IF dma.left > 0 THEN SubSeq(log_buf, dma.next, dma.next + dma.left - 1)
      ELSE IF dma_irq \in 1..DmaSize THEN SubSeq(log_buf, 1, dma_irq)
      ELSE IF Sending THEN SubSeq(log_buf, 1, len[t])
      ELSE <<>>

\* What the log has accepted leaves through the port once and in order, on
\* the three ways there are, as long as no two callers are between the test
\* of dma_transport and its setting and no handler logs while log_buf is
\* being sent: those two cases the flag does not exclude
\* (arch/arm/board/keyboard/arch_console.c:34-51).
Delivered ==
  raced \/ out \o Pending \o Content = [k \in 1..accepted |-> k - 1]

\* Nothing stays in the ring until the next message: the task that finds
\* dma_transport set may rely on the handler to read what it has written,
\* although it writes, tests and sets with interrupts on, even when callers
\* race (arch/arm/board/keyboard/arch_console.c:35-39, 61-63).
Drains == (Used > 0) ~> (Used = 0)

=============================================================================
