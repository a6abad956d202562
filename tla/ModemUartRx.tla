---------------------------- MODULE ModemUartRx ----------------------------
(***************************************************************************)
(* The receive path of the modem UART that modem-shell.c shares between    *)
(* the AT commands and the passthrough session: the hardware FIFO, filled  *)
(* by the modem under RTS/CTS flow control; the interrupt handler, which   *)
(* moves the FIFO into one ring buffer; and the owner word that says which *)
(* of the two may read the ring.  Callers take the path with Acquire, read *)
(* it with Take and give it back with Release.                             *)
(*                                                                         *)
(* A received byte is the number of its arrival (1, 2, ...): what a byte   *)
(* says does not matter here, which byte reaches which reader does.        *)
(***************************************************************************)
EXTENDS Naturals, Sequences, Functions

CONSTANTS
  RingSize,    \* capacity of the ring buffer (MODEM_UART_RX_RING_SIZE)
  FifoDepth,   \* capacity of the hardware receive FIFO
  ChunkSize,   \* most bytes one read takes (..._RX_CHUNK_SIZE)
  MaxBytes     \* bound: bytes the modem ever sends

ASSUME RxAssumption ==
  /\ RingSize \in Nat \ {0}
  /\ FifoDepth \in Nat \ {0}
  /\ ChunkSize \in Nat \ {0}
  /\ MaxBytes \in Nat

VARIABLES
  uartReady,   \* device_is_ready(modemUart): decided at boot, never changes
  configured,  \* modemUartRxIrqConfigured: ring initialised, handler installed
  owner,       \* modemUartRxOwner
  irqOn,       \* the UART's receive interrupt is enabled
  ring,        \* modemUartRxRing
  fifo,        \* the hardware FIFO
  sent,        \* how many bytes the modem has put on the wire
  accepted     \* history: what the handler stored in the ring for this owner

rxVars == <<uartReady, configured, owner, irqOn, ring, fifo, sent, accepted>>

Owners == {"none", "at", "passthrough"}
Bytes  == 1 .. MaxBytes

Least(a, b) == IF a <= b THEN a ELSE b

RxTypeOK ==
  /\ uartReady \in BOOLEAN
  /\ configured \in BOOLEAN
  /\ owner \in Owners
  /\ irqOn \in BOOLEAN
  /\ ring \in Seq(Bytes) /\ Len(ring) <= RingSize
  /\ fifo \in Seq(Bytes) /\ Len(fifo) <= FifoDepth
  /\ sent \in 0 .. MaxBytes
  /\ accepted \subseteq Bytes

(* Boot: the driver decides whether the device is ready, all else is zero. *)
RxInit ==
  /\ uartReady \in BOOLEAN
  /\ configured = FALSE
  /\ owner = "none"
  /\ irqOn = FALSE
  /\ ring = <<>>
  /\ fifo = <<>>
  /\ sent = 0
  /\ accepted = {}

---------------------------------------------------------------------------
(* modem_uart_rx_acquire, with modem_uart_rx_prepare in front.  It can fail *)
(* with ENODEV (device not ready) or EBUSY (owned); MayAcquire is success.  *)
(* Nothing else touches these variables while the owner is none and the    *)
(* interrupt is off, so its three assignments are one step.                *)
AcquireError ==
  IF ~uartReady THEN "ENODEV" ELSE IF owner # "none" THEN "EBUSY" ELSE "OK"

MayAcquire == AcquireError = "OK"

\* A bug to exclude: the interrupt enabled before the ring is reset, so what
\* the handler stores in between is thrown away.
AcquireEnablesFirst(o) ==
  /\ configured' = TRUE
  /\ owner' = o
  /\ irqOn' = TRUE
  /\ ring' = <<>>
  /\ fifo' = <<>>
  /\ accepted' = Range(fifo)
  /\ UNCHANGED <<uartReady, sent>>

Acquire(o) ==
  /\ configured' = TRUE
  /\ owner' = o
  /\ ring' = <<>>
  /\ irqOn' = TRUE
  /\ accepted' = {}
  /\ UNCHANGED <<uartReady, fifo, sent>>

(* prepare runs before the owner is looked at, so it counts on EBUSY too.   *)
FailToAcquire ==
  /\ configured' = (configured \/ uartReady)
  /\ ring' = IF uartReady /\ ~configured THEN <<>> ELSE ring
  /\ UNCHANGED <<uartReady, owner, irqOn, fifo, sent, accepted>>

(* modem_uart_rx_release(o): a caller that is not the owner changes nothing.*)
Release(o) ==
  /\ irqOn' = (irqOn /\ owner # o)
  /\ ring' = IF owner = o THEN <<>> ELSE ring
  /\ owner' = IF owner = o THEN "none" ELSE owner
  /\ UNCHANGED <<uartReady, configured, fifo, sent, accepted>>

(* ring_buf_get: up to ChunkSize bytes, those that were put in first.       *)
Chunk == SubSeq(ring, 1, Least(ChunkSize, Len(ring)))

Take ==
  /\ ring' = SubSeq(ring, Least(ChunkSize, Len(ring)) + 1, Len(ring))
  /\ UNCHANGED <<uartReady, configured, owner, irqOn, fifo, sent, accepted>>

---------------------------------------------------------------------------
(* The modem: sends a byte when it likes, but RTS holds it off while the   *)
(* FIFO is full, so the FIFO never overruns.                               *)
ModemSend ==
  /\ sent < MaxBytes
  /\ Len(fifo) < FifoDepth
  /\ sent' = sent + 1
  /\ fifo' = Append(fifo, sent + 1)
  /\ UNCHANGED <<uartReady, configured, owner, irqOn, ring, accepted>>

\* A bug to exclude: the handler stores without looking at the room left.
IrqCallbackOverruns ==
  /\ irqOn
  /\ fifo # <<>>
  /\ ring' = ring \o fifo
  /\ accepted' = accepted \cup Range(fifo)
  /\ fifo' = <<>>
  /\ UNCHANGED <<uartReady, configured, owner, irqOn, sent>>

(* modem_uart_rx_irq_cb: drains the FIFO into the ring.  ring_buf_put keeps *)
(* what fits and its result is ignored: the rest is lost.                  *)
IrqCallback ==
  /\ irqOn
  /\ fifo # <<>>
  /\ LET n == Least(RingSize - Len(ring), Len(fifo))
         kept == SubSeq(fifo, 1, n)
     IN /\ ring' = ring \o kept
        /\ accepted' = accepted \cup Range(kept)
  /\ fifo' = <<>>
  /\ UNCHANGED <<uartReady, configured, owner, irqOn, sent>>
=============================================================================
