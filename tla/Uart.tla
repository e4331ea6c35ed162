-------------------------------- MODULE Uart --------------------------------
(***************************************************************************)
(* The serial line: the host's end, the wire, the 16550 with its two FIFOs *)
(* (srcs/uart/gh_uart_16550.vhd) and the driver gcc/uart.c.                *)
(*                                                                         *)
(* A byte takes some 8700 clock cycles on the wire, the firmware a few     *)
(* dozen to handle one.  So time passes (Tick, one byte time, in both      *)
(* directions at once) only while the firmware polls in vain; each module  *)
(* that extends this one says when that is.                                *)
(***************************************************************************)
EXTENDS Integers, Sequences

CONSTANTS
  FifoDepth,   \* 16, of either FIFO
  MaxMisread   \* bound: bytes misread after a reset

ASSUME UartAssumption == FifoDepth \in Nat \ {0} /\ MaxMisread \in Nat

VARIABLES
  wire_in,   \* bytes the host has written that are not in the receive FIFO yet
  rx,        \* receive FIFO
  tx,        \* transmit FIFO
  tsr,       \* transmit shift register: at most one byte
  due,       \* bytes the firmware has been told to print or send, that the
             \* host has not read yet
  inbox,     \* bytes that have arrived at the host, for it to read
  overrun,   \* history: a byte was dropped at a full FIFO since the last reset
  cut        \* history: the last reset fell among bytes on their way in

uartVars == <<wire_in, rx, tx, tsr, due, inbox, overrun, cut>>

UartInit ==
  /\ wire_in = <<>> /\ rx = <<>> /\ tx = <<>> /\ tsr = <<>>
  /\ due = <<>> /\ inbox = <<>> /\ overrun = FALSE /\ cut = FALSE

\* Line status: bit 0, and bits 5 and 6 together (mask 96).
DataReady == rx # <<>>
RoomToSend == tx = <<>>

\* One byte time.  The host may pause; a byte for a full receive FIFO is lost.
Tick ==
  /\ \/ UNCHANGED <<wire_in, rx, overrun>>
     \/ /\ wire_in # <<>>
        /\ wire_in' = Tail(wire_in)
        /\ IF Len(rx) < FifoDepth
           THEN rx' = Append(rx, Head(wire_in)) /\ UNCHANGED overrun
           ELSE overrun' = TRUE /\ UNCHANGED rx
  /\ inbox' = inbox \o tsr
  /\ IF tx = <<>> THEN tsr' = <<>> /\ UNCHANGED tx
                  ELSE tsr' = <<Head(tx)>> /\ tx' = Tail(tx)
  /\ UNCHANGED <<due, cut>>

\* The store that uart_put makes; a full FIFO ignores it.
uart_put(c) ==
  /\ IF Len(tx) < FifoDepth
     THEN tx' = Append(tx, c) /\ UNCHANGED overrun
     ELSE overrun' = TRUE /\ UNCHANGED tx
  /\ due' = Append(due, c)
  /\ UNCHANGED <<wire_in, rx, tsr, inbox, cut>>

\* Mutant: no wait.
uart_put_blocking_at_once(c) == uart_put(c)

\* The loop of uart_put_blocking is left once there is room.
uart_put_blocking(c) == RoomToSend /\ uart_put(c)

\* uart_read_blocking, when its loop is left; Head(rx) is what it returns.
uart_read_blocking ==
  /\ DataReady
  /\ rx' = Tail(rx)
  /\ UNCHANGED <<wire_in, tx, tsr, due, inbox, overrun, cut>>

HostWrite(bytes) ==
  /\ wire_in' = wire_in \o bytes
  /\ UNCHANGED <<rx, tx, tsr, due, inbox, overrun, cut>>

HostRead(n) ==
  /\ Len(inbox) >= n
  /\ inbox' = SubSeq(inbox, n + 1, Len(inbox))
  /\ due' = SubSeq(due, n + 1, Len(due))
  /\ UNCHANGED <<wire_in, rx, tx, tsr, overrun, cut>>

\* What a receiver may make of bytes when it begins to hear in the middle of
\* them: it misses the first or takes wrong bits for start bits, for a while.
Remnants(bytes) ==
  UNION {{[k \in 1 .. Len(t) |-> IF k <= n THEN 0 ELSE t[k]] : n \in 0 .. MaxMisread} :
           t \in {bytes, Tail(bytes)}}

\* Reset, at any time.  The host does not notice and goes on sending.
UartReset ==
  /\ rx' = <<>> /\ tx' = <<>> /\ tsr' = <<>> /\ overrun' = FALSE
  /\ cut' = (wire_in # <<>>)
  /\ wire_in' \in IF wire_in = <<>> THEN {<<>>} ELSE Remnants(wire_in)
  /\ due' = inbox
  /\ UNCHANGED inbox

------------------------------------------------------------------------------
(* Properties. *)

Kept == ~overrun /\ inbox \o tsr \o tx = due

\* What the host gets is what the firmware sent, byte for byte and in order,
\* and what the host sends the firmware gets: nothing is lost in the FIFOs,
\* neither way, although uart_print asks for room before the first character
\* only and nothing holds the host back.  A reset among bytes on their way in
\* ends this; the next one on a quiet line restores it.
NothingLost == cut \/ Kept
=============================================================================
